---- MODULE Spec2Model ----
(***************************************************************************)
(* Event-sourced financial ledger: the Account aggregate, the in-memory    *)
(* event store and snapshot store, and the AccountService that loads an    *)
(* aggregate, runs a command on it, appends the emitted events under an    *)
(* optimistic lock and saves a snapshot every SnapshotFrequency versions.  *)
(*                                                                         *)
(* Decimal amounts are integers counting hundredths (100 is 1.00).  Every  *)
(* amount a command carries is a whole number of units and every exchange  *)
(* rate of getExchangeRate has two decimals, so each product the model     *)
(* computes is exact at this scale, as decimal.Decimal's is.               *)
(***************************************************************************)
EXTENDS Integers, Sequences, FiniteSets, TLC

\* ------------------------------------------------------------------ bounds

\* calls (commands, direct store calls, handler calls) issued in one behaviour
MaxCmds == 2

\* ------------------------------------------------------- program constants

SnapshotFrequency == 100

\* one unit of money (1.00) in hundredths
Unit == 100

Ids == {"a1", "a2"}

Currencies == {"USD", "EUR"}

\* amounts a command may carry: one that is not positive and one that is
Amounts == {0, Unit}

\* the concurrent callers of the service and of the event store
Callers == {"c1", "c2"}

\* ------------------------------------------------------------------ events

AccountCreatedType == "AccountCreated"

DepositMadeType == "DepositMade"

WithdrawalMadeType == "WithdrawalMade"

MoneyTransferredType == "MoneyTransferred"

CurrencyConvertedType == "CurrencyConverted"

\* The envelope of an event is its AggregateID, Version and Type.  EventID and
\* Timestamp are fresh values that no code path reads back; they are left out.

\* ------------------------------------------------------- decimal, Money

\* IsPositive that lets zero pass
IsPositiveOrZero(d) == d >= 0

IsPositive(d) == d > 0

IsNegative(d) == d < 0

\* Mul that drops the fraction of the rate before it multiplies
MulWholeRate(amount, rate) == amount * (rate \div Unit)

\* decimal.Mul of an amount by a rate, both in hundredths
Mul(amount, rate) == (amount * rate) \div Unit

\* GreaterThanOrEqual that asks for more than the required amount
GreaterThanOnly(available, required) == available > required

\* Money.GreaterThanOrEqual on two amounts of one currency
GreaterThanOrEqual(available, required) == available >= required

\* --------------------------------------------------------------- aggregate

NoError == "nil"

ErrInsufficientFunds == "ErrInsufficientFunds"

ErrAccountExists == "ErrAccountExists"

ErrAccountNotFound == "ErrAccountNotFound"

DomainError == "DomainError"

ErrOptimisticLock == "ErrOptimisticLock"

ErrSequence == "event sequence error"

ErrIDMismatch == "event aggregate ID mismatch"

ErrApply == "apply failed"

ErrInvariant == "invariant violation"

ErrRateNotFound == "exchange rate not found"

\* a map[Currency]Decimal with no key
EmptyBalances == [c \in {} |-> 0]

NewAccount(id) ==
    [ID |-> id, Balances |-> EmptyBalances, Version |-> 0, changes |-> <<>>]

getBalance(a, currency) ==
    IF currency \in DOMAIN a.Balances THEN a.Balances[currency] ELSE 0

\* a.Balances[currency] = amount
SetBalance(balances, currency, amount) ==
    [c \in (DOMAIN balances) \cup {currency} |->
        IF c = currency THEN amount ELSE balances[c]]

\* the result of a method of the aggregate: the error and the receiver after
Result(err, a) == [err |-> err, acct |-> a]

\* ApplyEvent that credits the target currency of a conversion before it
\* looks at the debit
ApplyEventCreditFirst(a, e) ==
    IF e.Version # a.Version + 1 THEN Result(ErrApply, a)
    ELSE IF e.Type = AccountCreatedType THEN
        \* the initial balances are copied entry by entry; the currencies of
        \* the entries are the keys of a map, so the order has no effect
        Result(NoError, [a EXCEPT !.ID = e.AggregateID,
                                  !.Balances = e.InitialBalances,
                                  !.Version = e.Version])
    ELSE IF e.Type = DepositMadeType THEN
        Result(NoError, [a EXCEPT
            !.Balances = SetBalance(a.Balances, e.Currency,
                                    getBalance(a, e.Currency) + e.Amount),
            !.Version = e.Version])
    ELSE IF e.Type = WithdrawalMadeType THEN
        LET newBalance == getBalance(a, e.Currency) - e.Amount IN
        IF IsNegative(newBalance) THEN Result(ErrInvariant, a)
        ELSE Result(NoError, [a EXCEPT
            !.Balances = SetBalance(a.Balances, e.Currency, newBalance),
            !.Version = e.Version])
    ELSE IF e.Type = CurrencyConvertedType THEN
        LET newFrom == getBalance(a, e.FromCurrency) - e.FromAmount IN
        IF IsNegative(newFrom)
        THEN Result(ErrInvariant, [a EXCEPT
                 !.Balances = SetBalance(a.Balances, e.ToCurrency,
                                         getBalance(a, e.ToCurrency) + e.ToAmount)])
        ELSE LET debited == SetBalance(a.Balances, e.FromCurrency, newFrom)
                 currentTo == IF e.ToCurrency \in DOMAIN debited
                              THEN debited[e.ToCurrency] ELSE 0
             IN Result(NoError, [a EXCEPT
                    !.Balances = SetBalance(debited, e.ToCurrency,
                                            currentTo + e.ToAmount),
                    !.Version = e.Version])
    ELSE IF e.Type = MoneyTransferredType THEN
        LET newBalance == getBalance(a, e.DebitedCurrency) - e.DebitedAmount IN
        IF IsNegative(newBalance) THEN Result(ErrInvariant, a)
        ELSE Result(NoError, [a EXCEPT
            !.Balances = SetBalance(a.Balances, e.DebitedCurrency, newBalance),
            !.Version = e.Version])
    ELSE Result(ErrApply, a)

ApplyEvent(a, e) ==
    IF e.Version # a.Version + 1 THEN Result(ErrApply, a)
    ELSE IF e.Type = AccountCreatedType THEN
        \* the initial balances are copied entry by entry; the currencies of
        \* the entries are the keys of a map, so the order has no effect
        Result(NoError, [a EXCEPT !.ID = e.AggregateID,
                                  !.Balances = e.InitialBalances,
                                  !.Version = e.Version])
    ELSE IF e.Type = DepositMadeType THEN
        Result(NoError, [a EXCEPT
            !.Balances = SetBalance(a.Balances, e.Currency,
                                    getBalance(a, e.Currency) + e.Amount),
            !.Version = e.Version])
    ELSE IF e.Type = WithdrawalMadeType THEN
        LET newBalance == getBalance(a, e.Currency) - e.Amount IN
        IF IsNegative(newBalance) THEN Result(ErrInvariant, a)
        ELSE Result(NoError, [a EXCEPT
            !.Balances = SetBalance(a.Balances, e.Currency, newBalance),
            !.Version = e.Version])
    ELSE IF e.Type = CurrencyConvertedType THEN
        LET newFrom == getBalance(a, e.FromCurrency) - e.FromAmount IN
        IF IsNegative(newFrom) THEN Result(ErrInvariant, a)
        ELSE LET debited == SetBalance(a.Balances, e.FromCurrency, newFrom)
                 currentTo == IF e.ToCurrency \in DOMAIN debited
                              THEN debited[e.ToCurrency] ELSE 0
             IN Result(NoError, [a EXCEPT
                    !.Balances = SetBalance(debited, e.ToCurrency,
                                            currentTo + e.ToAmount),
                    !.Version = e.Version])
    ELSE IF e.Type = MoneyTransferredType THEN
        LET newBalance == getBalance(a, e.DebitedCurrency) - e.DebitedAmount IN
        IF IsNegative(newBalance) THEN Result(ErrInvariant, a)
        ELSE Result(NoError, [a EXCEPT
            !.Balances = SetBalance(a.Balances, e.DebitedCurrency, newBalance),
            !.Version = e.Version])
    ELSE Result(ErrApply, a)

\* The loop of ApplyEvents over history[lo..hi]: the events are applied in
\* order and the first error ends the loop.  The range is split in two so
\* that the evaluation nests only as deep as the logarithm of its length.
RECURSIVE ApplyRange(_, _, _, _)
ApplyRange(a, history, lo, hi) ==
    IF lo > hi THEN Result(NoError, a)
    ELSE IF lo = hi THEN ApplyEvent(a, history[lo])
    ELSE LET mid == (lo + hi) \div 2
             r == ApplyRange(a, history, lo, mid)
         IN IF r.err # NoError THEN r
            ELSE ApplyRange(r.acct, history, mid + 1, hi)

ApplyEvents(a, history) == ApplyRange(a, history, 1, Len(history))

\* handleChange that applies the event and does not record it
handleChangeNotRecorded(a, event) == ApplyEvent(a, event)

handleChange(a, event) ==
    LET r == ApplyEvent(a, event) IN
    IF r.err # NoError THEN r
    ELSE Result(NoError, [r.acct EXCEPT !.changes = Append(@, event)])

\* the drained events; the receiver is left with an empty buffer
GetUncommitedChanges(a) ==
    [changes |-> a.changes, acct |-> [a EXCEPT !.changes = <<>>]]

\* ------------------------------------------------------- command handlers

\* HandleCreateAccount without the check of the initial balances
HandleCreateAccountAnyBalance(a, id, initialBalances) ==
    IF a.Version > 0 THEN Result(ErrAccountExists, a)
    ELSE IF id = "" THEN Result(DomainError, a)
    ELSE handleChange(a,
            [AggregateID |-> id, Version |-> a.Version + 1,
             Type |-> AccountCreatedType, InitialBalances |-> initialBalances])

HandleCreateAccount(a, id, initialBalances) ==
    IF a.Version > 0 THEN Result(ErrAccountExists, a)
    ELSE IF id = "" THEN Result(DomainError, a)
    ELSE IF \E cur \in DOMAIN initialBalances : IsNegative(initialBalances[cur])
         THEN Result(DomainError, a)
    ELSE handleChange(a,
            [AggregateID |-> id, Version |-> a.Version + 1,
             Type |-> AccountCreatedType, InitialBalances |-> initialBalances])

\* HandleDeposit that records the deposit twice, in two events
HandleDepositTwice(a, amount, currency) ==
    IF a.ID = "" \/ a.Version = 0 THEN Result(DomainError, a)
    ELSE IF ~IsPositive(amount) THEN Result(DomainError, a)
    ELSE LET first == handleChange(a,
                [AggregateID |-> a.ID, Version |-> a.Version + 1,
                 Type |-> DepositMadeType, Amount |-> amount,
                 Currency |-> currency])
         IN handleChange(first.acct,
                [AggregateID |-> a.ID, Version |-> a.Version + 2,
                 Type |-> DepositMadeType, Amount |-> amount,
                 Currency |-> currency])

\* HandleDeposit without the check that the account has been created
HandleDepositNoCreatedCheck(a, amount, currency) ==
    IF ~IsPositive(amount) THEN Result(DomainError, a)
    ELSE handleChange(a,
            [AggregateID |-> a.ID, Version |-> a.Version + 1,
             Type |-> DepositMadeType, Amount |-> amount, Currency |-> currency])

HandleDeposit(a, amount, currency) ==
    IF a.ID = "" \/ a.Version = 0 THEN Result(DomainError, a)
    ELSE IF ~IsPositive(amount) THEN Result(DomainError, a)
    ELSE handleChange(a,
            [AggregateID |-> a.ID, Version |-> a.Version + 1,
             Type |-> DepositMadeType, Amount |-> amount, Currency |-> currency])

\* HandleWithdraw that debits the balance before it checks the funds
HandleWithdrawDebitFirst(a, amount, currency) ==
    IF a.ID = "" \/ a.Version = 0 THEN Result(DomainError, a)
    ELSE IF ~IsPositive(amount) THEN Result(DomainError, a)
    ELSE IF ~GreaterThanOrEqual(getBalance(a, currency), amount)
         THEN Result(ErrInsufficientFunds,
                     [a EXCEPT !.Balances = SetBalance(a.Balances, currency,
                                              getBalance(a, currency) - amount)])
    ELSE handleChange(a,
            [AggregateID |-> a.ID, Version |-> a.Version + 1,
             Type |-> WithdrawalMadeType, Amount |-> amount, Currency |-> currency])

HandleWithdraw(a, amount, currency) ==
    IF a.ID = "" \/ a.Version = 0 THEN Result(DomainError, a)
    ELSE IF ~IsPositive(amount) THEN Result(DomainError, a)
    ELSE IF ~GreaterThanOrEqual(getBalance(a, currency), amount)
         THEN Result(ErrInsufficientFunds, a)
    ELSE handleChange(a,
            [AggregateID |-> a.ID, Version |-> a.Version + 1,
             Type |-> WithdrawalMadeType, Amount |-> amount, Currency |-> currency])

HandleConvertCurrency(a, fromAmount, fromCurrency, toCurrency, exchangeRate) ==
    IF a.ID = "" \/ a.Version = 0 THEN Result(DomainError, a)
    ELSE IF ~IsPositive(fromAmount) THEN Result(DomainError, a)
    ELSE IF fromCurrency = toCurrency THEN Result(DomainError, a)
    ELSE IF ~IsPositive(exchangeRate) THEN Result(DomainError, a)
    ELSE IF ~GreaterThanOrEqual(getBalance(a, fromCurrency), fromAmount)
         THEN Result(ErrInsufficientFunds, a)
    ELSE handleChange(a,
            [AggregateID |-> a.ID, Version |-> a.Version + 1,
             Type |-> CurrencyConvertedType,
             FromAmount |-> fromAmount, FromCurrency |-> fromCurrency,
             ToAmount |-> Mul(fromAmount, exchangeRate), ToCurrency |-> toCurrency,
             ExchangeRate |-> exchangeRate])

\* the checks without the one that the target is another account
TransferMoneyCheckAllowSelf(a, targetAccountID, debitAmount, debitCurrency, creditAmount, creditCurrency, rate) ==
    IF a.ID = "" \/ a.Version = 0 THEN [err |-> DomainError, rate |-> rate]
    ELSE IF ~IsPositive(debitAmount) THEN [err |-> DomainError, rate |-> rate]
    ELSE IF targetAccountID = "" THEN [err |-> DomainError, rate |-> rate]
    ELSE IF ~GreaterThanOrEqual(getBalance(a, debitCurrency), debitAmount)
         THEN [err |-> ErrInsufficientFunds, rate |-> rate]
    ELSE IF debitCurrency # creditCurrency
         THEN IF ~IsPositive(rate) THEN [err |-> DomainError, rate |-> rate]
              ELSE [err |-> NoError, rate |-> rate]
    ELSE IF creditAmount # debitAmount THEN [err |-> DomainError, rate |-> rate]
    ELSE [err |-> NoError, rate |-> Unit]

\* TransferMoneyCheck that records the rate it is given for a transfer within
\* one currency
TransferMoneyCheckKeepRate(a, targetAccountID, debitAmount, debitCurrency, creditAmount, creditCurrency, rate) ==
    IF a.ID = "" \/ a.Version = 0 THEN [err |-> DomainError, rate |-> rate]
    ELSE IF ~IsPositive(debitAmount) THEN [err |-> DomainError, rate |-> rate]
    ELSE IF targetAccountID = "" THEN [err |-> DomainError, rate |-> rate]
    ELSE IF targetAccountID = a.ID THEN [err |-> DomainError, rate |-> rate]
    ELSE IF ~GreaterThanOrEqual(getBalance(a, debitCurrency), debitAmount)
         THEN [err |-> ErrInsufficientFunds, rate |-> rate]
    ELSE IF debitCurrency # creditCurrency
         THEN IF ~IsPositive(rate) THEN [err |-> DomainError, rate |-> rate]
              ELSE [err |-> NoError, rate |-> rate]
    ELSE IF creditAmount # debitAmount THEN [err |-> DomainError, rate |-> rate]
    ELSE [err |-> NoError, rate |-> rate]

\* The checks of the debit side of a transfer and the rate it records:
\* the error, or nil and the rate of the event.
TransferMoneyCheck(a, targetAccountID, debitAmount, debitCurrency, creditAmount, creditCurrency, rate) ==
    IF a.ID = "" \/ a.Version = 0 THEN [err |-> DomainError, rate |-> rate]
    ELSE IF ~IsPositive(debitAmount) THEN [err |-> DomainError, rate |-> rate]
    ELSE IF targetAccountID = "" THEN [err |-> DomainError, rate |-> rate]
    ELSE IF targetAccountID = a.ID THEN [err |-> DomainError, rate |-> rate]
    ELSE IF ~GreaterThanOrEqual(getBalance(a, debitCurrency), debitAmount)
         THEN [err |-> ErrInsufficientFunds, rate |-> rate]
    ELSE IF debitCurrency # creditCurrency
         THEN IF ~IsPositive(rate) THEN [err |-> DomainError, rate |-> rate]
              ELSE [err |-> NoError, rate |-> rate]
    ELSE IF creditAmount # debitAmount THEN [err |-> DomainError, rate |-> rate]
    ELSE [err |-> NoError, rate |-> Unit]

HandleTransferMoney(a, targetAccountID, debitAmount, debitCurrency, creditAmount, creditCurrency, rate) ==
    LET chk == TransferMoneyCheck(a, targetAccountID, debitAmount, debitCurrency,
                                  creditAmount, creditCurrency, rate) IN
    IF chk.err # NoError THEN Result(chk.err, a)
    ELSE handleChange(a,
            [AggregateID |-> a.ID, Version |-> a.Version + 1,
             Type |-> MoneyTransferredType,
             TargetAccountID |-> targetAccountID,
             DebitedAmount |-> debitAmount, DebitedCurrency |-> debitCurrency,
             CreditedAmount |-> creditAmount, CreditedCurrency |-> creditCurrency,
             ExchangeRate |-> chk.rate])

\* The debit side of a transfer as the service calls it.  The source at hand
\* defines HandleTransferMoney only; this handler follows the specification:
\* the checks of HandleTransferMoney, and an event that also names the
\* transfer and its source.
HandleInitiateTransfer(a, transferID, targetAccountID, debitAmount, debitCurrency, creditAmount, creditCurrency, rate) ==
    LET chk == TransferMoneyCheck(a, targetAccountID, debitAmount, debitCurrency,
                                  creditAmount, creditCurrency, rate) IN
    IF chk.err # NoError THEN Result(chk.err, a)
    ELSE handleChange(a,
            [AggregateID |-> a.ID, Version |-> a.Version + 1,
             Type |-> MoneyTransferredType,
             TransferID |-> transferID,
             SourceAccountID |-> a.ID, TargetAccountID |-> targetAccountID,
             DebitedAmount |-> debitAmount, DebitedCurrency |-> debitCurrency,
             CreditedAmount |-> creditAmount, CreditedCurrency |-> creditCurrency,
             ExchangeRate |-> chk.rate])

\* The credit side of a transfer as the service calls it, after the
\* specification: the aggregate must exist and be the expected target, the
\* credited amount must be positive, and the event of the transfer is
\* recorded on the target.
HandleReceiveTransfer(a, transferID, sourceAccountID, expectedTargetAccountID, debitedAmount, debitedCurrency, creditedAmount, creditedCurrency, rate) ==
    IF a.ID = "" \/ a.Version = 0 THEN Result(DomainError, a)
    ELSE IF expectedTargetAccountID # a.ID THEN Result(DomainError, a)
    ELSE IF ~IsPositive(creditedAmount) THEN Result(DomainError, a)
    ELSE handleChange(a,
            [AggregateID |-> a.ID, Version |-> a.Version + 1,
             Type |-> MoneyTransferredType,
             TransferID |-> transferID,
             SourceAccountID |-> sourceAccountID,
             TargetAccountID |-> expectedTargetAccountID,
             DebitedAmount |-> debitedAmount, DebitedCurrency |-> debitedCurrency,
             CreditedAmount |-> creditedAmount, CreditedCurrency |-> creditedCurrency,
             ExchangeRate |-> rate])

\* ---------------------------------------------------------------- snapshot

\* Marshal that encodes the balances of a new account
MarshalNoBalances(account) ==
    [id |-> account.ID, balances |-> EmptyBalances, version |-> account.Version]

\* json.Marshal of an Account: the exported fields under their json names;
\* the unexported changes are not encoded
Marshal(account) ==
    [id |-> account.ID, balances |-> account.Balances, version |-> account.Version]

\* json.Unmarshal into a zero Account
Unmarshal(state) ==
    [ID |-> state.id, Balances |-> state.balances, Version |-> state.version,
     changes |-> <<>>]

\* CreateSnapshot that labels the state with the version before the command
CreateSnapshotStaleVersion(account) ==
    [AggregateID |-> account.ID, Version |-> account.Version - 1,
     State |-> Marshal(account)]

CreateSnapshot(account) ==
    [AggregateID |-> account.ID, Version |-> account.Version,
     State |-> Marshal(account)]

ApplySnapshot(snap) ==
    LET account == Unmarshal(snap.State) IN
    IF account.ID # snap.AggregateID \/ account.Version # snap.Version
    THEN [account EXCEPT !.ID = snap.AggregateID, !.Version = snap.Version,
                         !.changes = <<>>]
    ELSE [account EXCEPT !.changes = <<>>]

\* ------------------------------------------------------------- event store

\* CurrentVersion that reads the version of the first stored event
CurrentVersionOfFirst(stream) ==
    IF Len(stream) > 0 THEN stream[1].Version ELSE 0

\* the version of the last stored event, 0 for an unknown aggregate
CurrentVersion(stream) ==
    IF Len(stream) > 0 THEN stream[Len(stream)].Version ELSE 0

\* ValidateBatch without the check of the events' versions
RECURSIVE ValidateBatchNoSequence(_, _, _)
ValidateBatchNoSequence(aggregateID, nextVersion, newEvents) ==
    IF newEvents = <<>> THEN NoError
    ELSE IF Head(newEvents).AggregateID # aggregateID THEN ErrIDMismatch
    ELSE ValidateBatchNoSequence(aggregateID, nextVersion + 1, Tail(newEvents))

\* the first error of the batch, as the validation loop finds it
RECURSIVE ValidateBatch(_, _, _)
ValidateBatch(aggregateID, nextVersion, newEvents) ==
    IF newEvents = <<>> THEN NoError
    ELSE IF Head(newEvents).Version # nextVersion + 1 THEN ErrSequence
    ELSE IF Head(newEvents).AggregateID # aggregateID THEN ErrIDMismatch
    ELSE ValidateBatch(aggregateID, nextVersion + 1, Tail(newEvents))

\* SaveEvents without the optimistic concurrency check
SaveEventsNoLock(s, aggregateID, expectedVersion, newEvents) ==
    IF Len(newEvents) = 0 THEN [err |-> NoError, streams |-> s]
    ELSE LET v == ValidateBatch(aggregateID, expectedVersion, newEvents) IN
         IF v # NoError THEN [err |-> v, streams |-> s]
         ELSE [err |-> NoError,
               streams |-> [s EXCEPT ![aggregateID] = @ \o newEvents]]

\* SaveEvents whose concurrency check only rejects a stream that is ahead of
\* expectedVersion
SaveEventsStaleOnly(s, aggregateID, expectedVersion, newEvents) ==
    IF Len(newEvents) = 0 THEN [err |-> NoError, streams |-> s]
    ELSE IF CurrentVersion(s[aggregateID]) > expectedVersion
         THEN [err |-> ErrOptimisticLock, streams |-> s]
    ELSE LET v == ValidateBatch(aggregateID, expectedVersion, newEvents) IN
         IF v # NoError THEN [err |-> v, streams |-> s]
         ELSE [err |-> NoError,
               streams |-> [s EXCEPT ![aggregateID] = @ \o newEvents]]

\* SaveEvents that appends each event as soon as it has validated it, so that
\* the events before an offending one stay in the stream
SaveEventsPartial(s, aggregateID, expectedVersion, newEvents) ==
    IF Len(newEvents) = 0 THEN [err |-> NoError, streams |-> s]
    ELSE IF CurrentVersion(s[aggregateID]) # expectedVersion
         THEN [err |-> ErrOptimisticLock, streams |-> s]
    ELSE LET v == ValidateBatch(aggregateID, expectedVersion, newEvents)
             bad == {k \in 1..Len(newEvents) :
                        \/ newEvents[k].Version # expectedVersion + k
                        \/ newEvents[k].AggregateID # aggregateID}
             stored == IF bad = {} THEN newEvents
                       ELSE SubSeq(newEvents, 1,
                                   (CHOOSE k \in bad : \A j \in bad : k <= j) - 1)
         IN [err |-> v, streams |-> [s EXCEPT ![aggregateID] = @ \o stored]]

\* SaveEvents that appends before it reports a stream that has moved on
SaveEventsAppendOnConflict(s, aggregateID, expectedVersion, newEvents) ==
    IF Len(newEvents) = 0 THEN [err |-> NoError, streams |-> s]
    ELSE IF CurrentVersion(s[aggregateID]) # expectedVersion
         THEN [err |-> ErrOptimisticLock,
               streams |-> [s EXCEPT ![aggregateID] = @ \o newEvents]]
    ELSE LET v == ValidateBatch(aggregateID, expectedVersion, newEvents) IN
         IF v # NoError THEN [err |-> v, streams |-> s]
         ELSE [err |-> NoError,
               streams |-> [s EXCEPT ![aggregateID] = @ \o newEvents]]

\* SaveEvents that reports success for a valid batch and stores nothing
SaveEventsNotStored(s, aggregateID, expectedVersion, newEvents) ==
    IF Len(newEvents) = 0 THEN [err |-> NoError, streams |-> s]
    ELSE IF CurrentVersion(s[aggregateID]) # expectedVersion
         THEN [err |-> ErrOptimisticLock, streams |-> s]
    ELSE [err |-> ValidateBatch(aggregateID, expectedVersion, newEvents),
          streams |-> s]

\* SaveEvents of a store that keeps one version for all its aggregates: the
\* expected version is compared with the highest version stored
SaveEventsOneVersion(s, aggregateID, expectedVersion, newEvents) ==
    IF Len(newEvents) = 0 THEN [err |-> NoError, streams |-> s]
    ELSE IF \E i \in DOMAIN s : CurrentVersion(s[i]) > expectedVersion
         THEN [err |-> ErrOptimisticLock, streams |-> s]
    ELSE IF CurrentVersion(s[aggregateID]) # expectedVersion
         THEN [err |-> ErrOptimisticLock, streams |-> s]
    ELSE LET v == ValidateBatch(aggregateID, expectedVersion, newEvents) IN
         IF v # NoError THEN [err |-> v, streams |-> s]
         ELSE [err |-> NoError,
               streams |-> [s EXCEPT ![aggregateID] = @ \o newEvents]]

\* the error returned and the streams after the call
SaveEvents(s, aggregateID, expectedVersion, newEvents) ==
    IF Len(newEvents) = 0 THEN [err |-> NoError, streams |-> s]
    ELSE IF CurrentVersion(s[aggregateID]) # expectedVersion
         THEN [err |-> ErrOptimisticLock, streams |-> s]
    ELSE LET v == ValidateBatch(aggregateID, expectedVersion, newEvents) IN
         IF v # NoError THEN [err |-> v, streams |-> s]
         ELSE [err |-> NoError,
               streams |-> [s EXCEPT ![aggregateID] = @ \o newEvents]]

GetEvents(s, aggregateID) == s[aggregateID]

\* index of the first event with a version above the given one, 0 if none
StartIndex(streamData, version) ==
    LET after == {i \in 1..Len(streamData) : streamData[i].Version > version} IN
    IF after = {} THEN 0
    ELSE CHOOSE i \in after : \A j \in after : i <= j

\* GetEventsAfterVersion that starts one event too late
GetEventsAfterVersionSkipOne(s, aggregateID, version) ==
    LET streamData == s[aggregateID]
        startIndex == StartIndex(streamData, version + 1)
    IN IF startIndex = 0 THEN <<>>
       ELSE SubSeq(streamData, startIndex, Len(streamData))

GetEventsAfterVersion(s, aggregateID, version) ==
    LET streamData == s[aggregateID]
        startIndex == StartIndex(streamData, version)
    IN IF startIndex = 0 THEN <<>>
       ELSE SubSeq(streamData, startIndex, Len(streamData))

\* ---------------------------------------------------------- snapshot store

\* snapshots[id] is <<>> when the map has no entry for id, <<snapshot>> else
SaveSnapshot(snaps, snapshot) ==
    [snaps EXCEPT ![snapshot.AggregateID] = <<snapshot>>]

GetLatestSnapshot(snaps, aggregateID) ==
    [found |-> snaps[aggregateID] # <<>>, snapshot |-> snaps[aggregateID]]

\* ----------------------------------------------------------------- service

\* The table of rates, in hundredths.  It holds a direct rate for every
\* ordered pair of distinct listed currencies, so the inverse lookup that
\* follows it in the code is never reached with a rate to invert.
Rates ==
    [USD |-> [EUR |-> 92, GBP |-> 80],
     EUR |-> [USD |-> 108, GBP |-> 87],
     GBP |-> [USD |-> 125, EUR |-> 115]]

getExchangeRate(from, to) ==
    IF from = to THEN [err |-> NoError, rate |-> Unit]
    ELSE IF from \in DOMAIN Rates /\ to \in DOMAIN Rates[from]
         THEN [err |-> NoError, rate |-> Rates[from][to]]
    ELSE [err |-> ErrRateNotFound, rate |-> 0]

\* loadAccount up to the read of the event store: the aggregate the snapshot
\* gives (a new one when there is none) and the version to read after
loadAccountSnapshot(snaps, accountID) ==
    LET got == GetLatestSnapshot(snaps, accountID) IN
    IF got.found
    THEN LET account == ApplySnapshot(got.snapshot[1]) IN
         [account |-> account, snapshotVersion |-> account.Version]
    ELSE [account |-> NewAccount(accountID), snapshotVersion |-> 0]

\* loadAccount from the read of the event store on
loadAccountEvents(s, accountID, account, snapshotVersion) ==
    LET eventsToApply == GetEventsAfterVersion(s, accountID, snapshotVersion)
        r == IF Len(eventsToApply) > 0 THEN ApplyEvents(account, eventsToApply)
             ELSE Result(NoError, account)
    IN IF r.err # NoError THEN r
       ELSE IF r.acct.Version = 0 THEN Result(ErrAccountNotFound, r.acct)
       ELSE r

\* loadAccount when nothing runs between its two reads
loadAccount(snaps, s, accountID) ==
    LET l == loadAccountSnapshot(snaps, accountID) IN
    loadAccountEvents(s, accountID, l.account, l.snapshotVersion)

\* the condition without the frequency
SnapshotNeededEveryVersion(account) == account.Version > 0

\* the condition one version early
SnapshotNeededOneEarly(account) ==
    (account.Version + 1) % SnapshotFrequency = 0 /\ account.Version > 0

SnapshotNeeded(account) ==
    account.Version % SnapshotFrequency = 0 /\ account.Version > 0

saveSnapshotIfNeeded(snaps, account) ==
    IF SnapshotNeeded(account) THEN SaveSnapshot(snaps, CreateSnapshot(account))
    ELSE snaps

\* ------------------------------------------------------------------- state

VARIABLES
    streams,     \* InMemoryEventStore.streams: the events of each aggregate id
    snapshots,   \* InMemorySnapshotStore.snapshots: <<>> or <<the snapshot>>
    callers,     \* each caller's position in its call and the call's locals
    issued       \* number of calls started so far

vars == <<streams, snapshots, callers, issued>>

NoCmd == [type |-> "none"]

NoAccount == NewAccount("")

\* A caller that is in no call.  during is a history variable: the callers
\* whose call was running when this caller's call started.  result is what a
\* query has returned; seen is a history variable of a query: the versions
\* stored for its account when it started and when it returned.  message is
\* what the text of the returned error names, kept for the errors of a
\* transfer that fails after its debit and empty for every other return.
\* holds is the store call for which the caller has taken the store's lock,
\* where the taking of the locks is followed.
Idle ==
    [pc |-> "idle", cmd |-> NoCmd, err |-> NoError, message |-> <<>>,
     holds |-> "none",
     account |-> NoAccount, snapshotVersion |-> 0, initialVersion |-> 0,
     target |-> NoAccount, initialTargetVersion |-> 0,
     transferID |-> 0, changes |-> <<>>, during |-> {},
     result |-> <<>>, seen |-> <<>>]

InFlight(c) == c.pc \notin {"idle", "done"}

\* the caller after its call has returned err; the locals of the call are gone
Return(c, err) ==
    [Idle EXCEPT !.pc = "done", !.cmd = c.cmd, !.err = err,
                 !.initialVersion = c.initialVersion, !.during = c.during]

\* the stream that CreateAccount with one USD and n - 1 deposits of one USD
\* leave in the store
History(id, n) ==
    [v \in 1..n |->
        IF v = 1
        THEN [AggregateID |-> id, Version |-> 1, Type |-> AccountCreatedType,
              InitialBalances |-> [c \in {"USD"} |-> Unit]]
        ELSE [AggregateID |-> id, Version |-> v, Type |-> DepositMadeType,
              Amount |-> Unit, Currency |-> "USD"]]

\* The stores when the callers start: empty, or as earlier calls have left
\* them, with one account at the version before its first snapshot or at the
\* version of that snapshot.
InitialStores ==
    { [streams |-> [i \in Ids |-> <<>>], snapshots |-> [i \in Ids |-> <<>>]],
      [streams |-> [i \in Ids |-> IF i = "a1" THEN History(i, SnapshotFrequency - 1)
                                  ELSE History(i, 1)],
       snapshots |-> [i \in Ids |-> <<>>]],
      [streams |-> [i \in Ids |-> IF i = "a1" THEN History(i, SnapshotFrequency)
                                  ELSE History(i, 1)],
       snapshots |-> [i \in Ids |->
            IF i = "a1"
            THEN <<CreateSnapshot(
                     ApplyEvents(NewAccount(i), History(i, SnapshotFrequency)).acct)>>
            ELSE <<>>]] }

Init ==
    /\ \E st \in InitialStores : streams = st.streams /\ snapshots = st.snapshots
    /\ callers = [p \in Callers |-> Idle]
    /\ issued = 0

\* ------------------------------------------------------------ the commands

InitialBalancesChoices ==
    { [c \in {"USD"} |-> Unit], [c \in {"USD"} |-> 0 - Unit] }

CreateAccountCommands ==
    { [type |-> "CreateAccount", AccountID |-> i, InitialBalances |-> b] :
        i \in Ids, b \in InitialBalancesChoices }

DepositMoneyCommands ==
    { [type |-> "Deposit", AccountID |-> i, Amount |-> m, Currency |-> "USD"] :
        i \in Ids, m \in Amounts }

WithdrawMoneyCommands ==
    { [type |-> "Withdraw", AccountID |-> i, Amount |-> Unit, Currency |-> "USD"] :
        i \in Ids }

ConvertCurrencyCommands ==
    { [type |-> "ConvertCurrency", AccountID |-> i, FromAmount |-> Unit,
       FromCurrency |-> "USD", ToCurrency |-> "EUR"] : i \in Ids }

TransferMoneyCommands ==
    { [type |-> "TransferMoney", SourceAccountID |-> i, TargetAccountID |-> j,
       Amount |-> Unit, Currency |-> "USD"] :
        i \in Ids, j \in Ids }

\* The calls of SaveEvents by a direct caller of the store: on one aggregate,
\* with batches of up to two events whose versions and aggregate ids may or
\* may not fit.
RawEvents ==
    { [AggregateID |-> i, Version |-> v, Type |-> DepositMadeType,
       Amount |-> Unit, Currency |-> "USD"] : i \in Ids, v \in {1, 2} }

Batches ==
    {<<>>} \cup { <<e>> : e \in RawEvents }
           \cup { <<e, f>> : e \in RawEvents, f \in RawEvents }

SaveEventsCalls ==
    { [type |-> "SaveEvents", aggregateID |-> "a2", expectedVersion |-> v,
       newEvents |-> b] : v \in {0, 1}, b \in Batches }

\* the id of the aggregate a single-aggregate command is about, the source of
\* a transfer
AccountIDOf(cmd) ==
    IF cmd.type = "TransferMoney" THEN cmd.SourceAccountID
    ELSE IF cmd.type = "SaveEvents" THEN cmd.aggregateID
    ELSE cmd.AccountID

\* A call starts: the caller is in no call and takes the command.  The calls
\* of one behaviour are bounded by MaxCmds where the call is started.
Start(p, cmd, pc, during) ==
    /\ ~InFlight(callers[p])
    /\ issued' = issued + 1
    /\ callers' = [q \in DOMAIN callers |->
          IF q = p
          THEN [Idle EXCEPT !.pc = pc, !.cmd = cmd, !.transferID = issued + 1,
                            !.during = during]
          ELSE IF InFlight(callers[q]) THEN callers[q]
          ELSE [callers[q] EXCEPT !.during = @ \ {p}]]
    /\ UNCHANGED <<streams, snapshots>>

CreateAccount(p) ==
    /\ issued < MaxCmds
    /\ \E cmd \in CreateAccountCommands : Start(p, cmd, "loadSnapshot", {})

Deposit(p) ==
    /\ issued < MaxCmds
    /\ \E cmd \in DepositMoneyCommands : Start(p, cmd, "loadSnapshot", {})

Withdraw(p) ==
    /\ issued < MaxCmds
    /\ \E cmd \in WithdrawMoneyCommands : Start(p, cmd, "loadSnapshot", {})

ConvertCurrency(p) ==
    /\ issued < MaxCmds
    /\ \E cmd \in ConvertCurrencyCommands : Start(p, cmd, "loadSnapshot", {})

TransferMoney(p) ==
    /\ issued < MaxCmds
    /\ \E cmd \in TransferMoneyCommands : Start(p, cmd, "loadSnapshot", {})

\* ------------------------------------------------- the steps of a command

\* loadAccount, first store call: GetLatestSnapshot and ApplySnapshot
LoadSnapshot(p) ==
    LET c == callers[p] IN
    /\ c.pc \in {"loadSnapshot", "loadTargetSnapshot"}
    /\ LET id == IF c.pc = "loadSnapshot" THEN AccountIDOf(c.cmd)
                 ELSE c.cmd.TargetAccountID
           l == loadAccountSnapshot(snapshots, id)
       IN callers' = [callers EXCEPT ![p] =
            IF c.pc = "loadSnapshot"
            THEN [c EXCEPT !.pc = "loadEvents", !.account = l.account,
                           !.snapshotVersion = l.snapshotVersion]
            ELSE [c EXCEPT !.pc = "loadTargetEvents", !.target = l.account,
                           !.snapshotVersion = l.snapshotVersion]]
    /\ UNCHANGED <<streams, snapshots, issued>>

\* LoadEvents of a CreateAccount that does not look at whether the load
\* found the account
LoadEventsNoExistsCheck(p) ==
    LET c == callers[p]
        r == loadAccountEvents(streams, AccountIDOf(c.cmd), c.account,
                               c.snapshotVersion)
    IN
    /\ c.pc = "loadEvents"
    /\ callers' = [callers EXCEPT ![p] =
         IF c.cmd.type = "CreateAccount"
         THEN [c EXCEPT !.pc = "handle",
                        !.account = NewAccount(c.cmd.AccountID),
                        !.initialVersion = 0, !.snapshotVersion = 0]
         ELSE IF r.err # NoError THEN Return(c, r.err)
         ELSE [c EXCEPT !.pc = IF c.cmd.type = "TransferMoney"
                               THEN "loadTargetSnapshot" ELSE "handle",
                        !.account = r.acct,
                        !.initialVersion = r.acct.Version,
                        !.snapshotVersion = 0]]
    /\ UNCHANGED <<streams, snapshots, issued>>

\* loadAccount, second store call: GetEventsAfterVersion and ApplyEvents, and
\* what the command does with the outcome of the load
LoadEvents(p) ==
    LET c == callers[p]
        r == loadAccountEvents(streams, AccountIDOf(c.cmd), c.account,
                               c.snapshotVersion)
    IN
    /\ c.pc = "loadEvents"
    /\ callers' = [callers EXCEPT ![p] =
         IF c.cmd.type = "CreateAccount"
         THEN IF r.err = NoError THEN Return(c, ErrAccountExists)
              ELSE IF r.err # ErrAccountNotFound THEN Return(c, r.err)
              ELSE [c EXCEPT !.pc = "handle",
                             !.account = NewAccount(c.cmd.AccountID),
                             !.initialVersion = 0, !.snapshotVersion = 0]
         ELSE IF r.err # NoError THEN Return(c, r.err)
         ELSE [c EXCEPT !.pc = IF c.cmd.type = "TransferMoney"
                               THEN "loadTargetSnapshot" ELSE "handle",
                        !.account = r.acct,
                        !.initialVersion = r.acct.Version,
                        !.snapshotVersion = 0]]
    /\ UNCHANGED <<streams, snapshots, issued>>

\* TransferMoney's load of the target
LoadTargetEvents(p) ==
    LET c == callers[p]
        r == loadAccountEvents(streams, c.cmd.TargetAccountID, c.target,
                               c.snapshotVersion)
    IN
    /\ c.pc = "loadTargetEvents"
    /\ callers' = [callers EXCEPT ![p] =
         IF r.err # NoError THEN Return(c, r.err)
         ELSE [c EXCEPT !.pc = "handle", !.target = r.acct,
                        !.initialTargetVersion = r.acct.Version,
                        !.snapshotVersion = 0]]
    /\ UNCHANGED <<streams, snapshots, issued>>

\* the handler the command runs on the loaded aggregate
HandleCommand(account, cmd, transferID) ==
    IF cmd.type = "CreateAccount"
    THEN HandleCreateAccount(account, cmd.AccountID, cmd.InitialBalances)
    ELSE IF cmd.type = "Deposit"
    THEN HandleDeposit(account, cmd.Amount, cmd.Currency)
    ELSE IF cmd.type = "Withdraw"
    THEN HandleWithdraw(account, cmd.Amount, cmd.Currency)
    ELSE IF cmd.type = "ConvertCurrency"
    THEN LET rate == getExchangeRate(cmd.FromCurrency, cmd.ToCurrency) IN
         IF rate.err # NoError THEN Result(rate.err, account)
         ELSE HandleConvertCurrency(account, cmd.FromAmount, cmd.FromCurrency,
                                    cmd.ToCurrency, rate.rate)
    ELSE HandleInitiateTransfer(account, transferID, cmd.TargetAccountID,
                                cmd.Amount, cmd.Currency, cmd.Amount, cmd.Currency,
                                Unit)

\* the command runs its handler and drains the aggregate's changes
Handle(p) ==
    LET c == callers[p]
        r == HandleCommand(c.account, c.cmd, c.transferID)
        drained == GetUncommitedChanges(r.acct)
    IN
    /\ c.pc = "handle"
    /\ callers' = [callers EXCEPT ![p] =
         IF r.err # NoError THEN Return(c, r.err)
         ELSE [c EXCEPT !.pc = "save", !.account = drained.acct,
                        !.changes = drained.changes]]
    /\ UNCHANGED <<streams, snapshots, issued>>

\* where a command goes on after the events of its (source) aggregate are
\* saved and the snapshot, if one was due, is written
AfterCommit(c) ==
    IF c.cmd.type = "TransferMoney" THEN [c EXCEPT !.pc = "receive", !.changes = <<>>]
    ELSE Return(c, NoError)

\* Save that goes on with the command when the append has failed
SaveIgnoringError(p) ==
    LET c == callers[p]
        r == SaveEvents(streams, AccountIDOf(c.cmd), c.initialVersion, c.changes)
    IN
    /\ c.pc = "save"
    /\ streams' = r.streams
    /\ callers' = [callers EXCEPT ![p] =
         IF r.err = NoError /\ SnapshotNeeded(c.account) THEN [c EXCEPT !.pc = "snapshot"]
         ELSE AfterCommit(c)]
    /\ UNCHANGED <<snapshots, issued>>

\* eventStore.SaveEvents of the drained changes, under the store's lock
Save(p) ==
    LET c == callers[p]
        r == SaveEvents(streams, AccountIDOf(c.cmd), c.initialVersion, c.changes)
    IN
    /\ c.pc = "save"
    /\ streams' = r.streams
    /\ callers' = [callers EXCEPT ![p] =
         IF r.err # NoError THEN Return(c, r.err)
         ELSE IF SnapshotNeeded(c.account) THEN [c EXCEPT !.pc = "snapshot"]
         ELSE AfterCommit(c)]
    /\ UNCHANGED <<snapshots, issued>>

\* saveSnapshotIfNeeded when a snapshot is due: SaveSnapshot under its lock
Snapshot(p) ==
    LET c == callers[p] IN
    /\ c.pc = "snapshot"
    /\ snapshots' = saveSnapshotIfNeeded(snapshots, c.account)
    /\ callers' = [callers EXCEPT ![p] = AfterCommit(c)]
    /\ UNCHANGED <<streams, issued>>

\* What the error of TransferMoney names when the credit handler rejects:
\* "transfer failed during credit to target account %s (TransferID: %s): %w.
\* Source account %s was debited."
CreditFailedMessage(c) ==
    [target |-> c.cmd.TargetAccountID, TransferID |-> c.transferID,
     source |-> c.cmd.SourceAccountID]

\* What the error of TransferMoney names when the append to the target fails:
\* "failed to save transfer credit events for target account %s (TransferID:
\* %s): %w. System may be in an inconsistent state"; the wrapped error of
\* SaveEvents names the aggregate it was called for, the target again.
SaveCreditFailedMessage(c) ==
    [target |-> c.cmd.TargetAccountID, TransferID |-> c.transferID]

\* TransferMoney runs the credit handler on the target it loaded
Receive(p) ==
    LET c == callers[p]
        r == HandleReceiveTransfer(c.target, c.transferID, c.cmd.SourceAccountID,
                                   c.cmd.TargetAccountID, c.cmd.Amount,
                                   c.cmd.Currency, c.cmd.Amount, c.cmd.Currency, Unit)
        drained == GetUncommitedChanges(r.acct)
    IN
    /\ c.pc = "receive"
    /\ callers' = [callers EXCEPT ![p] =
         IF r.err # NoError
         THEN [Return(c, r.err) EXCEPT !.message = CreditFailedMessage(c)]
         ELSE [c EXCEPT !.pc = "saveTarget", !.target = drained.acct,
                        !.changes = drained.changes]]
    /\ UNCHANGED <<streams, snapshots, issued>>

SaveTarget(p) ==
    LET c == callers[p]
        r == SaveEvents(streams, c.cmd.TargetAccountID, c.initialTargetVersion,
                        c.changes)
    IN
    /\ c.pc = "saveTarget"
    /\ streams' = r.streams
    /\ callers' = [callers EXCEPT ![p] =
         IF r.err # NoError
         THEN [Return(c, r.err) EXCEPT !.message = SaveCreditFailedMessage(c)]
         ELSE IF SnapshotNeeded(c.target) THEN [c EXCEPT !.pc = "snapshotTarget"]
         ELSE Return(c, NoError)]
    /\ UNCHANGED <<snapshots, issued>>

SnapshotTarget(p) ==
    LET c == callers[p] IN
    /\ c.pc = "snapshotTarget"
    /\ snapshots' = saveSnapshotIfNeeded(snapshots, c.target)
    /\ callers' = [callers EXCEPT ![p] = Return(c, NoError)]
    /\ UNCHANGED <<streams, issued>>

\* a direct caller of the store calls SaveEvents
CallSaveEvents(p) ==
    /\ issued < MaxCmds
    /\ \E call \in SaveEventsCalls :
            Start(p, call, "saveEvents",
                  {r \in DOMAIN callers \ {p} : InFlight(callers[r])})

\* the call runs, under the store's lock, and returns
RunSaveEvents(p) ==
    LET c == callers[p]
        r == SaveEvents(streams, c.cmd.aggregateID, c.cmd.expectedVersion,
                        c.cmd.newEvents)
    IN
    /\ c.pc = "saveEvents"
    /\ streams' = r.streams
    /\ callers' = [callers EXCEPT ![p] = Return(c, r.err)]
    /\ UNCHANGED <<snapshots, issued>>

Step(p) ==
    \/ LoadSnapshot(p)
    \/ LoadEvents(p)
    \/ LoadTargetEvents(p)
    \/ Handle(p)
    \/ Save(p)
    \/ Snapshot(p)
    \/ Receive(p)
    \/ SaveTarget(p)
    \/ SnapshotTarget(p)

\* a caller starts a command
Command(p) ==
    \/ CreateAccount(p)
    \/ Deposit(p)
    \/ Withdraw(p)
    \/ ConvertCurrency(p)
    \/ TransferMoney(p)

\* callers of the service
Next == \E p \in Callers : Command(p) \/ Step(p)

Spec == Init /\ [][Next]_vars

\* Concurrent deposits on one existing account, one call per caller: the
\* account starts at the version before its first snapshot.
DepositCallers == {"c1", "c2", "c3"}

InitDeposits ==
    /\ streams = [i \in Ids |-> IF i = "a1" THEN History(i, SnapshotFrequency - 1)
                                 ELSE <<>>]
    /\ snapshots = [i \in Ids |-> <<>>]
    /\ callers = [p \in DepositCallers |-> Idle]
    /\ issued = 0

\* the deposits of the race: on one account, of no, one or two units
RaceDeposits ==
    { [type |-> "Deposit", AccountID |-> "a1", Amount |-> m, Currency |-> "USD"] :
        m \in {0, Unit, 2 * Unit} }

DepositOnce(p) ==
    /\ callers[p].pc = "idle"
    /\ \E cmd \in RaceDeposits : Start(p, cmd, "loadSnapshot", {})

DepositStep(p) ==
    \/ LoadSnapshot(p)
    \/ LoadEvents(p)
    \/ Handle(p)
    \/ Save(p)
    \/ Snapshot(p)

NextDeposits == \E p \in DepositCallers : DepositOnce(p) \/ DepositStep(p)

SpecDeposits == InitDeposits /\ [][NextDeposits]_vars

\* direct callers of the event store
NextStore == \E p \in Callers : CallSaveEvents(p) \/ RunSaveEvents(p)

SpecStore == Init /\ [][NextStore]_vars

\* callers of the service and direct callers of the event store together
NextAll == Next \/ NextStore

SpecAll == Init /\ [][NextAll]_vars

\* ------------------------------------------- the handlers on one aggregate

\* A caller that holds one aggregate and calls its handlers one after the
\* other, as the tests of the aggregate do: the aggregate keeps the changes
\* of the calls, nothing is stored.
HandlerCallers == {"t"}

\* the call of a handler with result r on the aggregate of caller p
Applied(p, call, r) ==
    /\ callers[p].pc = "aggregate"
    /\ issued < MaxCmds
    /\ issued' = issued + 1
    /\ callers' = [callers EXCEPT ![p] =
          [@ EXCEPT !.cmd = call, !.err = r.err, !.account = r.acct]]
    /\ UNCHANGED <<streams, snapshots>>

CallHandleCreateAccount(p) ==
    \E b \in InitialBalancesChoices :
        Applied(p, [type |-> "HandleCreateAccount", id |-> "a1", initialBalances |-> b],
                HandleCreateAccount(callers[p].account, "a1", b))

CallHandleDeposit(p) ==
    \E m \in Amounts, cur \in Currencies :
        Applied(p, [type |-> "HandleDeposit", amount |-> m, currency |-> cur],
                HandleDeposit(callers[p].account, m, cur))

CallHandleWithdraw(p) ==
    \E m \in Amounts, cur \in Currencies :
        Applied(p, [type |-> "HandleWithdraw", amount |-> m, currency |-> cur],
                HandleWithdraw(callers[p].account, m, cur))

CallHandleConvertCurrency(p) ==
    \E m \in Amounts, from \in Currencies, to \in Currencies :
        Applied(p, [type |-> "HandleConvertCurrency", fromAmount |-> m,
                    fromCurrency |-> from, toCurrency |-> to],
                HandleConvertCurrency(callers[p].account, m, from, to,
                                      getExchangeRate(from, to).rate))

CallHandleTransferMoney(p) ==
    \E target \in Ids, m \in Amounts :
        Applied(p, [type |-> "HandleTransferMoney", targetAccountID |-> target,
                    debitAmount |-> m],
                HandleTransferMoney(callers[p].account, target, m, "USD", m, "USD",
                                    Unit))

CallHandleInitiateTransfer(p) ==
    \E target \in Ids, m \in Amounts :
        Applied(p, [type |-> "HandleInitiateTransfer", targetAccountID |-> target,
                    debitAmount |-> m],
                HandleInitiateTransfer(callers[p].account, issued + 1, target, m,
                                       "USD", m, "USD", Unit))

CallHandleReceiveTransfer(p) ==
    \E target \in Ids, m \in Amounts :
        Applied(p, [type |-> "HandleReceiveTransfer",
                    expectedTargetAccountID |-> target, creditedAmount |-> m],
                HandleReceiveTransfer(callers[p].account, issued + 1, "a2", target,
                                      m, "USD", m, "USD", Unit))

HandlerCall(p) ==
    \/ CallHandleCreateAccount(p)
    \/ CallHandleDeposit(p)
    \/ CallHandleWithdraw(p)
    \/ CallHandleConvertCurrency(p)
    \/ CallHandleTransferMoney(p)
    \/ CallHandleInitiateTransfer(p)
    \/ CallHandleReceiveTransfer(p)

\* The service under its callers, next to a caller that calls the handlers on
\* an aggregate of its own.
InitLayers ==
    /\ \E st \in InitialStores : streams = st.streams /\ snapshots = st.snapshots
    /\ \E i \in {"", "a1"} :
          callers = [p \in Callers \cup HandlerCallers |->
                       IF p \in Callers THEN Idle
                       ELSE [Idle EXCEPT !.pc = "aggregate",
                                         !.account = NewAccount(i)]]
    /\ issued = 0

NextLayers == \E p \in DOMAIN callers : Command(p) \/ Step(p) \/ HandlerCall(p)

SpecLayers == InitLayers /\ [][NextLayers]_vars

\* ------------------------------------------- one account, deposits in a row

\* One caller creates an account and then deposits one USD, call after call,
\* each call after the one before has returned success.
SnapshottingCallers == {"c1"}

\* the deposits applied after the creation
DepositsApplied == SnapshotFrequency

InitSnapshotting ==
    /\ streams = [i \in Ids |-> <<>>]
    /\ snapshots = [i \in Ids |-> <<>>]
    /\ callers = [p \in SnapshottingCallers |-> Idle]
    /\ issued = 0

CreateFirst(p) ==
    /\ issued = 0
    /\ \E b \in {0, Unit} :
          Start(p, [type |-> "CreateAccount", AccountID |-> "a1",
                    InitialBalances |-> [c \in {"USD"} |-> b]], "loadSnapshot", {})

DepositNext(p) ==
    /\ issued \in 1..DepositsApplied
    /\ callers[p].pc = "done"
    /\ callers[p].err = NoError
    /\ Start(p, [type |-> "Deposit", AccountID |-> "a1", Amount |-> Unit,
                 Currency |-> "USD"], "loadSnapshot", {})

NextSnapshotting ==
    \E p \in SnapshottingCallers : CreateFirst(p) \/ DepositNext(p) \/ DepositStep(p)

SpecSnapshotting == InitSnapshotting /\ [][NextSnapshotting]_vars

\* ------------------------------------- a direct writer of the snapshot store

\* The snapshots a direct caller of the snapshot store saves: of an account
\* after its creation and one deposit, whether or not the event store holds
\* those events (yet).
DirectSnapshots ==
    { CreateSnapshot(ApplyEvents(NewAccount(i), History(i, 2)).acct) : i \in Ids }

CallSaveSnapshot(p) ==
    /\ issued < MaxCmds
    /\ \E snapshot \in DirectSnapshots :
          Start(p, [type |-> "SaveSnapshot", AccountID |-> snapshot.AggregateID,
                    snapshot |-> snapshot], "saveSnapshot", {})

\* the call runs, under the store's lock, and returns
RunSaveSnapshot(p) ==
    LET c == callers[p] IN
    /\ c.pc = "saveSnapshot"
    /\ snapshots' = SaveSnapshot(snapshots, c.cmd.snapshot)
    /\ callers' = [callers EXCEPT ![p] = Return(c, NoError)]
    /\ UNCHANGED <<streams, issued>>

NextSnapshotWriter ==
    \/ Next
    \/ \E p \in Callers : CallSaveSnapshot(p) \/ RunSaveSnapshot(p)

SpecSnapshotWriter == Init /\ [][NextSnapshotWriter]_vars

\* ---------------------------------------------------------------- queries

\* a query without a currency asks for all balances
NoCurrency == ""

GetBalanceQueries ==
    { [type |-> "GetCurrentBalance", AccountID |-> i, Currency |-> cur] :
        i \in Ids, cur \in {NoCurrency, "EUR"} }

GetHistoryQueries ==
    { [type |-> "GetTransactionHistory", AccountID |-> i, Skip |-> k, Limit |-> k] :
        i \in Ids, k \in {0, 1} }

\* the versions stored for an account: of its last event and of its snapshot
Seen(id) ==
    [version |-> CurrentVersion(streams[id]),
     snapshot |-> IF snapshots[id] = <<>> THEN 0 ELSE snapshots[id][1].Version]

\* a query starts
StartQuery(p, query, pc) ==
    /\ ~InFlight(callers[p])
    /\ issued' = issued + 1
    /\ callers' = [q \in DOMAIN callers |->
          IF q = p
          THEN [Idle EXCEPT !.pc = pc, !.cmd = query,
                            !.seen = <<Seen(query.AccountID)>>]
          ELSE IF InFlight(callers[q]) THEN callers[q]
          ELSE [callers[q] EXCEPT !.during = @ \ {p}]]
    /\ UNCHANGED <<streams, snapshots>>

\* the caller after its query has returned result and err
ReturnQuery(c, err, result) ==
    [Return(c, err) EXCEPT !.result = result,
                           !.seen = <<c.seen[1], Seen(c.cmd.AccountID)>>]

\* the copy of the balances that GetCurrentBalance returns: of the currency
\* asked for (zero when the account has none of it), or of all
BalancesCopy(account, query) ==
    IF query.Currency # NoCurrency
    THEN [cur \in {query.Currency} |-> getBalance(account, query.Currency)]
    ELSE account.Balances

\* the page of a non-empty history that GetTransactionHistory returns
Page(history, skip, limit) ==
    LET totalEvents == Len(history)
        start == IF skip < 0 THEN 0 ELSE skip
        end == IF limit <= 0 \/ start + limit > totalEvents THEN totalEvents
               ELSE start + limit
    IN IF start >= totalEvents THEN <<>>
       ELSE SubSeq(history, start + 1, end)

GetCurrentBalance(p) ==
    /\ issued < MaxCmds
    /\ \E query \in GetBalanceQueries : StartQuery(p, query, "balanceLoadSnapshot")

GetTransactionHistory(p) ==
    /\ issued < MaxCmds
    /\ \E query \in GetHistoryQueries : StartQuery(p, query, "historyGetEvents")

\* loadAccount of a query, first store call
QueryLoadSnapshot(p) ==
    LET c == callers[p]
        l == loadAccountSnapshot(snapshots, c.cmd.AccountID)
    IN
    /\ c.pc \in {"balanceLoadSnapshot", "historyLoadSnapshot"}
    /\ callers' = [callers EXCEPT ![p] =
          [c EXCEPT !.pc = IF c.pc = "balanceLoadSnapshot" THEN "balanceLoadEvents"
                           ELSE "historyLoadEvents",
                    !.account = l.account, !.snapshotVersion = l.snapshotVersion]]
    /\ UNCHANGED <<streams, snapshots, issued>>

\* a GetCurrentBalance that stores the account it has loaded as a snapshot
BalanceLoadEventsSavingSnapshot(p) ==
    LET c == callers[p]
        r == loadAccountEvents(streams, c.cmd.AccountID, c.account, c.snapshotVersion)
    IN
    /\ c.pc = "balanceLoadEvents"
    /\ callers' = [callers EXCEPT ![p] =
          IF r.err # NoError THEN ReturnQuery(c, r.err, <<>>)
          ELSE ReturnQuery(c, NoError, BalancesCopy(r.acct, c.cmd))]
    /\ snapshots' = IF r.err # NoError THEN snapshots
                    ELSE SaveSnapshot(snapshots, CreateSnapshot(r.acct))
    /\ UNCHANGED <<streams, issued>>

\* loadAccount of GetCurrentBalance, second store call, and the answer
BalanceLoadEvents(p) ==
    LET c == callers[p]
        r == loadAccountEvents(streams, c.cmd.AccountID, c.account, c.snapshotVersion)
    IN
    /\ c.pc = "balanceLoadEvents"
    /\ callers' = [callers EXCEPT ![p] =
          IF r.err # NoError THEN ReturnQuery(c, r.err, <<>>)
          ELSE ReturnQuery(c, NoError, BalancesCopy(r.acct, c.cmd))]
    /\ UNCHANGED <<streams, snapshots, issued>>

\* GetTransactionHistory reads the stream; an empty one sends it to loadAccount
HistoryGetEvents(p) ==
    LET c == callers[p]
        history == GetEvents(streams, c.cmd.AccountID)
    IN
    /\ c.pc = "historyGetEvents"
    /\ callers' = [callers EXCEPT ![p] =
          IF Len(history) = 0 THEN [c EXCEPT !.pc = "historyLoadSnapshot"]
          ELSE ReturnQuery(c, NoError, Page(history, c.cmd.Skip, c.cmd.Limit))]
    /\ UNCHANGED <<streams, snapshots, issued>>

\* the load after an empty history: not found is an error, anything else an
\* empty answer
HistoryLoadEvents(p) ==
    LET c == callers[p]
        r == loadAccountEvents(streams, c.cmd.AccountID, c.account, c.snapshotVersion)
    IN
    /\ c.pc = "historyLoadEvents"
    /\ callers' = [callers EXCEPT ![p] =
          IF r.err = ErrAccountNotFound THEN ReturnQuery(c, ErrAccountNotFound, <<>>)
          ELSE ReturnQuery(c, NoError, <<>>)]
    /\ UNCHANGED <<streams, snapshots, issued>>

Query(p) ==
    \/ GetCurrentBalance(p)
    \/ GetTransactionHistory(p)

QueryStep(p) ==
    \/ QueryLoadSnapshot(p)
    \/ BalanceLoadEvents(p)
    \/ HistoryGetEvents(p)
    \/ HistoryLoadEvents(p)

\* callers of the commands and of the queries
NextQueries == Next \/ \E p \in Callers : Query(p) \/ QueryStep(p)

SpecQueries == Init /\ [][NextQueries]_vars

\* ------------------------------------------- commands of any signed amount

\* the amounts of the commands: negative, zero and positive
SignedAmounts == {0 - Unit, 0, Unit}

DepositSigned(p) ==
    /\ issued < MaxCmds
    /\ \E i \in Ids, m \in SignedAmounts :
          Start(p, [type |-> "Deposit", AccountID |-> i, Amount |-> m,
                    Currency |-> "USD"], "loadSnapshot", {})

WithdrawSigned(p) ==
    /\ issued < MaxCmds
    /\ \E i \in Ids, m \in SignedAmounts :
          Start(p, [type |-> "Withdraw", AccountID |-> i, Amount |-> m,
                    Currency |-> "USD"], "loadSnapshot", {})

ConvertCurrencySigned(p) ==
    /\ issued < MaxCmds
    /\ \E i \in Ids, m \in SignedAmounts :
          Start(p, [type |-> "ConvertCurrency", AccountID |-> i, FromAmount |-> m,
                    FromCurrency |-> "USD", ToCurrency |-> "EUR"], "loadSnapshot", {})

TransferMoneySigned(p) ==
    /\ issued < MaxCmds
    /\ \E i \in Ids, j \in Ids, m \in SignedAmounts :
          Start(p, [type |-> "TransferMoney", SourceAccountID |-> i,
                    TargetAccountID |-> j, Amount |-> m, Currency |-> "USD"],
                "loadSnapshot", {})

CommandSigned(p) ==
    \/ DepositSigned(p)
    \/ WithdrawSigned(p)
    \/ ConvertCurrencySigned(p)
    \/ TransferMoneySigned(p)

NextSigned == \E p \in Callers : CommandSigned(p) \/ Step(p)

SpecSigned == Init /\ [][NextSigned]_vars

\* ------------------------------------------- the handlers on an open account

\* the USD balances an account is opened with before its handlers are called
OpeningBalances == {0, Unit, 2 * Unit}

\* The aggregate of the handler caller after HandleCreateAccount: an Active
\* account that holds USD and one GBP, and no EUR.
InitOpened ==
    /\ streams = [i \in Ids |-> <<>>]
    /\ snapshots = [i \in Ids |-> <<>>]
    /\ \E b \in OpeningBalances :
          callers = [p \in HandlerCallers |->
                       [Idle EXCEPT !.pc = "aggregate",
                                    !.account = HandleCreateAccount(NewAccount(""), "a1",
                                                    [c \in {"USD", "GBP"} |->
                                                        IF c = "USD" THEN b ELSE Unit]).acct]]
    /\ issued = 0

NextOpened == \E p \in HandlerCallers : HandlerCall(p)

SpecOpened == InitOpened /\ [][NextOpened]_vars

\* ------------------------------------------- events applied to an aggregate

\* The events a caller applies to its aggregate a with ApplyEvent: of the next
\* version or of the one after it, for an amount the account may or may not
\* hold, and carrying the id of the aggregate or the id of another one.
EventsToApply(a) ==
    LET base(id, v, type) == [AggregateID |-> id, Version |-> v, Type |-> type] IN
    UNION { { base(id, v, DepositMadeType) @@ [Amount |-> m, Currency |-> "USD"],
              base(id, v, WithdrawalMadeType) @@ [Amount |-> m, Currency |-> "USD"],
              base(id, v, CurrencyConvertedType)
                 @@ [FromAmount |-> m, FromCurrency |-> "USD",
                     ToAmount |-> Mul(m, Rates["USD"]["EUR"]), ToCurrency |-> "EUR",
                     ExchangeRate |-> Rates["USD"]["EUR"]],
              base(id, v, MoneyTransferredType)
                 @@ [TransferID |-> 1, SourceAccountID |-> id,
                     TargetAccountID |-> IF id = "a2" THEN "a1" ELSE "a2",
                     DebitedAmount |-> m, DebitedCurrency |-> "USD",
                     CreditedAmount |-> m, CreditedCurrency |-> "USD",
                     ExchangeRate |-> Unit] } :
            id \in {a.ID, "a2"}, v \in {a.Version + 1, a.Version + 2},
            m \in {Unit, 3 * Unit} }

CallApplyEvent(p) ==
    \E e \in EventsToApply(callers[p].account) :
        Applied(p, [type |-> "ApplyEvent", event |-> e],
                ApplyEvent(callers[p].account, e))

NextApply == \E p \in HandlerCallers : HandlerCall(p) \/ CallApplyEvent(p)

SpecApply == InitOpened /\ [][NextApply]_vars

\* ------------------------------------------- concurrent transfers, nothing else

\* callers of the service that call TransferMoney and no other command
NextTransfers == \E p \in Callers : TransferMoney(p) \/ Step(p)

SpecTransfers == Init /\ [][NextTransfers]_vars

\* ------------------------------------------- concurrent creations

\* Concurrent CreateAccount calls on an empty store, one call per caller, with
\* explicit ids and initial balances that tell the calls apart.
CreateCallers == {"c1", "c2", "c3"}

InitCreates ==
    /\ streams = [i \in Ids |-> <<>>]
    /\ snapshots = [i \in Ids |-> <<>>]
    /\ callers = [p \in CreateCallers |-> Idle]
    /\ issued = 0

\* the creations of the race: an account with no, one or two units of USD
RaceCreates ==
    { [type |-> "CreateAccount", AccountID |-> i,
       InitialBalances |-> [c \in {"USD"} |-> m]] :
        i \in Ids, m \in {0, Unit, 2 * Unit} }

CreateOnce(p) ==
    /\ callers[p].pc = "idle"
    /\ \E cmd \in RaceCreates : Start(p, cmd, "loadSnapshot", {})

\* the steps of CreateAccount; at version 1 no snapshot is due
CreateStep(p) ==
    \/ LoadSnapshot(p)
    \/ LoadEvents(p)
    \/ Handle(p)
    \/ Save(p)

NextCreates == \E p \in CreateCallers : CreateOnce(p) \/ CreateStep(p)

SpecCreates == InitCreates /\ [][NextCreates]_vars

\* ------------------------------------------- deposits retried by their callers

\* Concurrent deposits on one existing account whose callers reload and retry
\* after a conflict: the service returns the optimistic-lock error, and it is
\* the caller that calls Deposit again with the same command.
InitRetry ==
    /\ streams = [i \in Ids |-> IF i = "a1" THEN History(i, SnapshotFrequency - 1)
                                 ELSE <<>>]
    /\ snapshots = [i \in Ids |-> <<>>]
    /\ callers = [p \in Callers |-> Idle]
    /\ issued = 0

Retry(p) ==
    /\ callers[p].pc = "done"
    /\ callers[p].err = ErrOptimisticLock
    /\ Start(p, callers[p].cmd, "loadSnapshot", {})

NextRetry == \E p \in Callers : DepositOnce(p) \/ Retry(p) \/ DepositStep(p)

SpecRetry == InitRetry /\ [][NextRetry]_vars

\* ------------------------------------------- the pending changes of an aggregate

\* The aggregate of the handler caller as the tests of the handlers set it up:
\* a new account, or one brought to version 1 with ApplyEvent, which leaves
\* nothing pending.
InitPending ==
    /\ streams = [i \in Ids |-> <<>>]
    /\ snapshots = [i \in Ids |-> <<>>]
    /\ \E a \in {NewAccount(""), ApplyEvents(NewAccount("a1"), History("a1", 1)).acct} :
          callers = [p \in HandlerCallers |->
                       [Idle EXCEPT !.pc = "aggregate", !.account = a]]
    /\ issued = 0

\* GetUncommitedChanges on the aggregate of caller p; what it returns is kept
\* in the record of the call.  The call adds nothing to the aggregate, so it
\* is not counted among the calls that MaxCmds bounds.
CallGetUncommitedChanges(p) ==
    LET drained == GetUncommitedChanges(callers[p].account) IN
    /\ callers[p].pc = "aggregate"
    /\ callers' = [callers EXCEPT ![p] =
          [@ EXCEPT !.cmd = [type |-> "GetUncommitedChanges",
                             returned |-> drained.changes],
                    !.err = NoError, !.account = drained.acct]]
    /\ UNCHANGED <<streams, snapshots, issued>>

\* the histories a caller replays on its aggregate a with ApplyEvents: one or
\* two events from the next version on, the second one a deposit or a
\* withdrawal of more than the account can hold
HistoriesToApply(a) ==
    LET deposit(v) == [AggregateID |-> a.ID, Version |-> v, Type |-> DepositMadeType,
                       Amount |-> Unit, Currency |-> "USD"]
        withdrawal(v) == [AggregateID |-> a.ID, Version |-> v,
                          Type |-> WithdrawalMadeType,
                          Amount |-> SnapshotFrequency * Unit, Currency |-> "USD"]
    IN { <<deposit(a.Version + 1)>>,
         <<deposit(a.Version + 1), deposit(a.Version + 2)>>,
         <<deposit(a.Version + 1), withdrawal(a.Version + 2)>> }

CallApplyEvents(p) ==
    \E history \in HistoriesToApply(callers[p].account) :
        Applied(p, [type |-> "ApplyEvents", history |-> history],
                ApplyEvents(callers[p].account, history))

NextPending ==
    \E p \in HandlerCallers :
        HandlerCall(p) \/ CallGetUncommitedChanges(p) \/ CallApplyEvents(p)

SpecPending == InitPending /\ [][NextPending]_vars

\* ------------------------------------------- the debit handlers of a transfer

\* the credit amounts, credit currencies and rates a caller hands to the debit
\* handler of a transfer of one USD: equal to the debit or not, within USD
\* or across, at rate 1 or another one
TransferArguments ==
    { [creditAmount |-> m, creditCurrency |-> cur, rate |-> r] :
        m \in {Unit, 2 * Unit}, cur \in Currencies,
        r \in {0, Rates["USD"]["EUR"], Unit} }

CallHandleTransferMoneyWith(p) ==
    \E x \in TransferArguments :
        Applied(p, [type |-> "HandleTransferMoney", targetAccountID |-> "a2",
                    debitAmount |-> Unit] @@ x,
                HandleTransferMoney(callers[p].account, "a2", Unit, "USD",
                                    x.creditAmount, x.creditCurrency, x.rate))

CallHandleInitiateTransferWith(p) ==
    \E x \in TransferArguments :
        Applied(p, [type |-> "HandleInitiateTransfer", targetAccountID |-> "a2",
                    debitAmount |-> Unit] @@ x,
                HandleInitiateTransfer(callers[p].account, issued + 1, "a2", Unit,
                                       "USD", x.creditAmount, x.creditCurrency,
                                       x.rate))

NextTransferHandlers ==
    \E p \in HandlerCallers :
        CallHandleTransferMoneyWith(p) \/ CallHandleInitiateTransferWith(p)

SpecTransferHandlers == InitOpened /\ [][NextTransferHandlers]_vars

\* ------------------------------- a command that is late with its snapshot

\* One caller deposits into an existing account of 99 events; the other
\* deposits again and again, each call after the one before has returned.
\* Nothing orders the first caller's write of its snapshot with the calls of
\* the second.
LateCaller == "c2"

\* the calls of the caller that deposits again and again
DepositsInARow == SnapshotFrequency + 1

DepositFirst(p) ==
    /\ p = LateCaller
    /\ issued = 0
    /\ Start(p, [type |-> "Deposit", AccountID |-> "a1", Amount |-> Unit,
                 Currency |-> "USD"], "loadSnapshot", {})

DepositAgain(p) ==
    /\ p # LateCaller
    /\ issued \in 1..DepositsInARow
    /\ ~InFlight(callers[p])
    /\ Start(p, [type |-> "Deposit", AccountID |-> "a1", Amount |-> Unit,
                 Currency |-> "USD"], "loadSnapshot", {})

NextLate ==
    \E p \in Callers : DepositFirst(p) \/ DepositAgain(p) \/ DepositStep(p)

SpecLate == InitRetry /\ [][NextLate]_vars

\* ------------------------------ a race on one account, a command on another

\* Two callers run one single-aggregate command each on account a1 while a
\* third runs one on account a2; both accounts exist.
InitFrame ==
    /\ streams = [i \in Ids |-> IF i = "a1" THEN History(i, SnapshotFrequency - 1)
                                 ELSE History(i, 1)]
    /\ snapshots = [i \in Ids |-> <<>>]
    /\ callers = [p \in DepositCallers |-> Idle]
    /\ issued = 0

\* the account a caller works on
AccountOfCaller(p) == IF p = "c3" THEN "a2" ELSE "a1"

SingleAggregateCommands ==
    CreateAccountCommands \union DepositMoneyCommands
        \union WithdrawMoneyCommands \union ConvertCurrencyCommands

CommandOnce(p) ==
    /\ callers[p].pc = "idle"
    /\ \E cmd \in SingleAggregateCommands :
          /\ cmd.AccountID = AccountOfCaller(p)
          /\ Start(p, cmd, "loadSnapshot", {})

NextFrame == \E p \in DepositCallers : CommandOnce(p) \/ DepositStep(p)

SpecFrame == InitFrame /\ [][NextFrame]_vars

\* ------------------------------------------------- the locks of the stores

\* Each store call of a command takes the lock of its store when it starts
\* and releases it when it returns; here the taking is a step of its own, so
\* that a caller can wait for a lock that another caller holds.

\* the store a command calls at a position, "none" where it calls no store
StoreOf(pc) ==
    IF pc \in {"loadSnapshot", "loadTargetSnapshot", "snapshot", "snapshotTarget"}
    THEN "snapshots"
    ELSE IF pc \in {"loadEvents", "loadTargetEvents", "save", "saveTarget"}
    THEN "events"
    ELSE "none"

\* the store calls that take the lock for writing; the others take it for reading
Writes(pc) == pc \in {"save", "saveTarget", "snapshot", "snapshotTarget"}

\* a lock that is not released when the store call returns
HoldsUntilReturn(c) == c.holds # "none"

\* the caller holds the lock it took: from the start of the store call it is
\* in to the return of that call
Holds(c) == c.holds = c.pc

\* the lock of the store is free for the store call at position pc: nobody
\* holds it, or it is held for reading and is wanted for reading
LockFree(pc) ==
    \A q \in DOMAIN callers :
        (Holds(callers[q]) /\ StoreOf(callers[q].holds) = StoreOf(pc))
        => (~Writes(pc) /\ ~Writes(callers[q].holds))

\* the store call of caller p takes the lock of its store
Acquire(p) ==
    LET c == callers[p] IN
    /\ StoreOf(c.pc) # "none"
    /\ c.holds # c.pc
    /\ LockFree(c.pc)
    /\ callers' = [callers EXCEPT ![p].holds = c.pc]
    /\ UNCHANGED <<streams, snapshots, issued>>

\* a step of caller p: a store call runs under the lock it has taken and
\* returns, which releases the lock; a handler runs without a lock
LockedStep(p) ==
    /\ StoreOf(callers[p].pc) # "none" => callers[p].holds = callers[p].pc
    /\ Step(p)

NextLocks == \E p \in Callers : Command(p) \/ Acquire(p) \/ LockedStep(p)

\* the caller can run the step it is at: it is in a call and at a handler, or
\* at a store call whose lock it has taken (LockedStep(p) is enabled)
Ready(p) ==
    /\ InFlight(callers[p])
    /\ StoreOf(callers[p].pc) # "none" => callers[p].holds = callers[p].pc

\* Fair scheduling: a caller that waits for a lock that stays free takes it,
\* and a caller that can run its step runs it.  The second is the weak
\* fairness of LockedStep(p), with its enabling condition written out.
FairScheduling(p) ==
    /\ WF_vars(Acquire(p))
    /\ []<>(~Ready(p)) \/ []<><<LockedStep(p)>>_vars

SpecLocks ==
    /\ Init
    /\ [][NextLocks]_vars
    /\ \A p \in Callers : FairScheduling(p)

\* ------------------------------------------------------------- properties

\* the calls of the callers that have returned
Returned == {p \in DOMAIN callers : callers[p].pc = "done"}

\* the direct calls of SaveEvents that have returned
ReturnedSaveEvents == {p \in Returned : callers[p].cmd.type = "SaveEvents"}

\* the service commands that have returned
ReturnedCommands == Returned \ ReturnedSaveEvents

\* C1: in every reachable state of the event store, under any interleaving
\* of SaveEvents calls and service commands, the events stored for an
\* aggregate id have the versions 1, 2, ..., N in stored order.
C1_VersionsContiguous ==
    \A id \in Ids : \A k \in 1..Len(streams[id]) : streams[id][k].Version = k

\* a direct SaveEvents call and a service command have both appended to the
\* stream of one aggregate
C1_Witness ==
    \E p \in ReturnedSaveEvents : \E q \in ReturnedCommands :
        /\ callers[p].err = NoError /\ callers[p].cmd.newEvents # <<>>
        /\ callers[q].err = NoError
        /\ AccountIDOf(callers[q].cmd) = callers[p].cmd.aggregateID
        /\ Len(streams[callers[p].cmd.aggregateID]) >= 3

\* Two SaveEvents calls that ran concurrently (one started while the other
\* was in flight), both with a non-empty batch, for the same aggregate id and
\* the same expectedVersion, and that have both returned.
ConcurrentSaves ==
    { pq \in ReturnedSaveEvents \X ReturnedSaveEvents :
        LET c == callers[pq[1]]
            d == callers[pq[2]]
        IN /\ pq[1] # pq[2]
           /\ pq[1] \in d.during \/ pq[2] \in c.during
           /\ c.cmd.newEvents # <<>> /\ d.cmd.newEvents # <<>>
           /\ c.cmd.aggregateID = d.cmd.aggregateID
           /\ c.cmd.expectedVersion = d.cmd.expectedVersion }

\* the batch has the given aggregate id and the versions that follow
\* expectedVersion
WellFormed(aggregateID, expectedVersion, newEvents) ==
    \A k \in 1..Len(newEvents) :
        /\ newEvents[k].Version = expectedVersion + k
        /\ newEvents[k].AggregateID = aggregateID

RECURSIVE Sum(_)
Sum(f) ==
    IF DOMAIN f = {} THEN 0
    ELSE LET x == CHOOSE y \in DOMAIN f : TRUE IN
         f[x] + Sum([y \in DOMAIN f \ {x} |-> f[y]])

\* the Deposit calls whose SaveEvents has succeeded: those that have returned
\* success and those that are about to write the snapshot
Deposited ==
    { p \in DOMAIN callers :
        /\ callers[p].cmd.type = "Deposit"
        /\ \/ callers[p].pc = "snapshot"
           \/ callers[p].pc = "done" /\ callers[p].err = NoError }

\* C3: concurrent Deposit calls on one existing account lose and duplicate no
\* update.  Each call whose save succeeded has appended exactly one
\* DepositMade event, that of its command, at the version after the one it
\* loaded, and each other call none: the stored version is the initial one
\* plus the number of successful calls.  Two calls that loaded the same
\* version never both succeed.  The balance the stream replays to is the
\* initial balance plus the amounts of the successful calls; this holds in
\* particular once all calls have returned.
C3_NoLostUpdate ==
    LET stream == streams["a1"]
        replayed == ApplyEvents(NewAccount("a1"), stream)
    IN /\ Len(stream) = (SnapshotFrequency - 1) + Cardinality(Deposited)
       /\ \A p \in Deposited :
            LET c == callers[p] IN
            /\ c.initialVersion + 1 \in SnapshotFrequency..Len(stream)
            /\ stream[c.initialVersion + 1] =
                  [AggregateID |-> "a1", Version |-> c.initialVersion + 1,
                   Type |-> DepositMadeType,
                   Amount |-> c.cmd.Amount, Currency |-> c.cmd.Currency]
       /\ \A p \in Deposited : \A q \in Deposited \ {p} :
            callers[p].initialVersion # callers[q].initialVersion
       /\ replayed.err = NoError
       /\ replayed.acct.Version = Len(stream)
       /\ replayed.acct.Balances =
            [c \in {"USD"} |->
                (SnapshotFrequency - 1) * Unit
                + Sum([p \in Deposited |-> callers[p].cmd.Amount])]

\* all three calls have returned: two loaded the account at the same version
\* and one of them lost, and two succeeded with different amounts
C3_Witness ==
    /\ \A p \in DOMAIN callers : callers[p].pc = "done"
    /\ \E p \in Deposited : \E q \in DOMAIN callers \ Deposited :
            /\ callers[q].err = ErrOptimisticLock
            /\ callers[q].initialVersion = callers[p].initialVersion
    /\ \E p \in Deposited : \E q \in Deposited :
            callers[p].cmd.Amount # callers[q].cmd.Amount

\* The replay of history[lo..hi] on a: the aggregate it ends with, and
\* whether every event applied without error and left no negative balance.
RECURSIVE ReplayNonNegative(_, _, _, _)
ReplayNonNegative(a, history, lo, hi) ==
    IF lo > hi THEN [ok |-> TRUE, acct |-> a]
    ELSE IF lo = hi
    THEN LET r == ApplyEvent(a, history[lo]) IN
         [ok |-> /\ r.err = NoError
                 /\ \A cur \in DOMAIN r.acct.Balances : r.acct.Balances[cur] >= 0,
          acct |-> r.acct]
    ELSE LET mid == (lo + hi) \div 2
             left == ReplayNonNegative(a, history, lo, mid)
         IN IF ~left.ok THEN left
            ELSE ReplayNonNegative(left.acct, history, mid + 1, hi)

\* C4: under any interleaving of service commands, the replay of any prefix
\* of any aggregate's stored stream yields a balance >= 0 for every currency.
C4_NoNegativeBalance ==
    \A id \in Ids :
        ReplayNonNegative(NewAccount(id), streams[id], 1, Len(streams[id])).ok

\* a withdrawal has emptied an account and a later command that needed funds
\* of it was refused
C4_Witness ==
    \E p \in ReturnedCommands : \E q \in ReturnedCommands :
        LET id == AccountIDOf(callers[p].cmd) IN
        /\ callers[p].cmd.type = "Withdraw" /\ callers[p].err = NoError
        /\ AccountIDOf(callers[q].cmd) = id
        /\ callers[q].err = ErrInsufficientFunds
        /\ getBalance(ApplyEvents(NewAccount(id), streams[id]).acct, "USD") = 0

\* C5: an aggregate that loadAccount returns has the version that equals the
\* number of events the store holds for its id when the tail is read, and
\* when SaveEvents commits a command's events the version of the aggregate
\* after the command equals the length of the stored stream.
C5_VersionIsEventCount ==
    \A p \in DOMAIN callers :
        LET c == callers[p] IN
        /\ c.pc = "loadEvents" =>
              LET id == AccountIDOf(c.cmd)
                  r == loadAccountEvents(streams, id, c.account, c.snapshotVersion)
              IN r.err = NoError => r.acct.Version = Len(streams[id])
        /\ c.pc = "loadTargetEvents" =>
              LET id == c.cmd.TargetAccountID
                  r == loadAccountEvents(streams, id, c.target, c.snapshotVersion)
              IN r.err = NoError => r.acct.Version = Len(streams[id])
        /\ c.pc = "save" =>
              LET id == AccountIDOf(c.cmd)
                  r == SaveEvents(streams, id, c.initialVersion, c.changes)
              IN r.err = NoError => c.account.Version = Len(r.streams[id])
        /\ c.pc = "saveTarget" =>
              LET id == c.cmd.TargetAccountID
                  r == SaveEvents(streams, id, c.initialTargetVersion, c.changes)
              IN r.err = NoError => c.target.Version = Len(r.streams[id])

\* an aggregate has been rebuilt from the snapshot at version
\* SnapshotFrequency and one tail event, and the command on it has committed
C5_Witness ==
    \E p \in ReturnedCommands : \E id \in Ids :
        /\ snapshots[id] # <<>>
        /\ snapshots[id][1].Version = SnapshotFrequency
        /\ AccountIDOf(callers[p].cmd) = id
        /\ callers[p].err = NoError
        /\ callers[p].initialVersion = SnapshotFrequency + 1
        /\ Len(streams[id]) = SnapshotFrequency + 2

\* caller p's SaveEvents of its drained changes succeeds in this step
Commits(p) ==
    /\ callers[p].pc \in {"save", "saveTarget"}
    /\ callers'[p].pc # callers[p].pc
    /\ ~(callers'[p].pc = "done" /\ callers'[p].err # NoError)

\* the stream of the aggregate caller p is saving
SavedID(p) ==
    IF callers[p].pc = "save" THEN AccountIDOf(callers[p].cmd)
    ELSE callers[p].cmd.TargetAccountID

C7_SnapshotEqualsReplay ==
    \A id \in Ids :
        LET got == GetLatestSnapshot(snapshots, id) IN
        got.found =>
            LET base == ApplySnapshot(got.snapshot[1])
                tail == GetEventsAfterVersion(streams, id, got.snapshot[1].Version)
                rebuilt == ApplyEvents(base, tail)
                replayed == ApplyEvents(NewAccount(id), GetEvents(streams, id))
            IN /\ rebuilt.err = NoError
               /\ replayed.err = NoError
               /\ rebuilt.acct.Balances = replayed.acct.Balances
               /\ rebuilt.acct.Version = replayed.acct.Version

\* a command has written a snapshot and a later command has appended an
\* event after it
C7_Witness ==
    \E p \in ReturnedCommands : \E id \in Ids :
        /\ snapshots[id] # <<>>
        /\ AccountIDOf(callers[p].cmd) = id
        /\ callers[p].err = NoError
        /\ callers[p].initialVersion = SnapshotFrequency - 1
        /\ Len(streams[id]) = SnapshotFrequency + 1
        /\ streams[id][Len(streams[id])].Type # DepositMadeType

\* the single-aggregate commands of the service
SingleAggregate ==
    {"CreateAccount", "Deposit", "Withdraw", "ConvertCurrency"}

\* C8, the handlers: a command handler that returns an error leaves the id,
\* the version, the balances and the pending changes of its aggregate as
\* they were, so that no event is produced.
C8_HandlerErrorKeepsAggregate ==
    \A p \in DOMAIN callers :
        LET c == callers[p] IN
        /\ c.pc = "handle" =>
              LET r == HandleCommand(c.account, c.cmd, c.transferID) IN
              r.err # NoError => r.acct = c.account
        /\ c.pc = "receive" =>
              LET r == HandleReceiveTransfer(c.target, c.transferID,
                          c.cmd.SourceAccountID, c.cmd.TargetAccountID,
                          c.cmd.Amount, c.cmd.Currency,
                          c.cmd.Amount, c.cmd.Currency, Unit)
              IN r.err # NoError => r.acct = c.target

\* C8, the service: the step in which a single-aggregate command returns an
\* error changes neither store, and the command has written to neither
\* before, as it returns the error from its load, its handler or its save.
C8_CommandErrorKeepsStores ==
    \A p \in DOMAIN callers :
        ( /\ callers[p].cmd.type \in SingleAggregate
          /\ InFlight(callers[p])
          /\ callers'[p].pc = "done" /\ callers'[p].err # NoError )
        => /\ streams' = streams
           /\ snapshots' = snapshots
           /\ callers[p].pc \in {"loadEvents", "handle", "save"}

\* C8: a command handler that returns an error leaves its aggregate unchanged
\* and produces no event, and a single-aggregate service command that returns
\* an error leaves the event store and the snapshot store unchanged.
C8_ErrorLeavesStateUnchanged ==
    /\ []C8_HandlerErrorKeepsAggregate
    /\ [][C8_CommandErrorKeepsStores]_vars

\* a withdrawal has been refused for insufficient funds
C8_Witness ==
    \E p \in ReturnedCommands :
        /\ callers[p].cmd.type = "Withdraw"
        /\ callers[p].err = ErrInsufficientFunds

\* the direct SaveEvents call of caller p runs in this step
SaveEventsRuns(p) ==
    /\ callers[p].pc = "saveEvents"
    /\ callers'[p].pc = "done"

\* C9: a SaveEvents call with a non-empty batch fails with ErrOptimisticLock
\* whenever the highest stored version of the aggregate (0 for an unknown
\* aggregate) differs from expectedVersion, and the stored stream is then
\* unchanged.
C9_StaleVersionRejected ==
    [][\A p \in DOMAIN callers :
        LET call == callers[p].cmd IN
        ( /\ SaveEventsRuns(p)
          /\ call.newEvents # <<>>
          /\ CurrentVersion(streams[call.aggregateID]) # call.expectedVersion )
        => /\ callers'[p].err = ErrOptimisticLock
           /\ streams' = streams]_vars

\* a well-formed batch has been rejected because the stream was behind its
\* expectedVersion
C9_Witness ==
    \E p \in ReturnedSaveEvents :
        LET call == callers[p].cmd IN
        /\ call.newEvents # <<>>
        /\ callers[p].err = ErrOptimisticLock
        /\ CurrentVersion(streams[call.aggregateID]) < call.expectedVersion
        /\ WellFormed(call.aggregateID, call.expectedVersion, call.newEvents)

\* C10 as stated: a batch with an event whose version is not the next one
\* after expectedVersion, or whose aggregate id is not the stream's, makes the
\* call fail with an error that is not ErrOptimisticLock, and nothing of the
\* batch is stored.
C10_MalformedFailsNotOptimisticLock ==
    [][\A p \in DOMAIN callers :
        LET call == callers[p].cmd IN
        ( /\ SaveEventsRuns(p)
          /\ ~WellFormed(call.aggregateID, call.expectedVersion, call.newEvents) )
        => /\ callers'[p].err \notin {NoError, ErrOptimisticLock}
           /\ streams' = streams]_vars

\* C10 (amended): such a batch makes the call fail and nothing of it is
\* stored; the error is not ErrOptimisticLock when the stored version equals
\* expectedVersion, and it is ErrOptimisticLock when it differs.
C10_AllOrNothing ==
    [][\A p \in DOMAIN callers :
        LET call == callers[p].cmd IN
        ( /\ SaveEventsRuns(p)
          /\ ~WellFormed(call.aggregateID, call.expectedVersion, call.newEvents) )
        => /\ callers'[p].err # NoError
           /\ callers'[p].err = ErrOptimisticLock
                <=> CurrentVersion(streams[call.aggregateID]) # call.expectedVersion
           /\ streams' = streams]_vars

\* a batch whose first event is valid and whose second is not has been
\* rejected for the second, and the stream holds neither
C10_Witness ==
    \E p \in ReturnedSaveEvents :
        LET call == callers[p].cmd IN
        /\ Len(call.newEvents) = 2
        /\ WellFormed(call.aggregateID, call.expectedVersion, <<call.newEvents[1]>>)
        /\ callers[p].err \in {ErrSequence, ErrIDMismatch}
        /\ CurrentVersion(streams[call.aggregateID]) = call.expectedVersion

\* ---------------------------------------------------------------------- C11

\* the account of id has been created: its stream starts with AccountCreated
Created(id) ==
    /\ streams[id] # <<>>
    /\ streams[id][1].Type = AccountCreatedType

\* the step of caller p in which its call of the given command type passes
\* the program point pc
Leaves(p, type, pc) ==
    /\ callers[p].cmd.type = type
    /\ callers[p].pc = pc
    /\ callers'[p].pc # pc

\* C11: CreateAccount for an id whose stream already holds a committed
\* AccountCreated event returns ErrAccountExists when its load comes back, and
\* the step changes neither the streams (no event appended, the existing
\* stream as it was) nor the snapshots.
C11_DuplicateCreateFails ==
    [][\A p \in DOMAIN callers :
        ( /\ Leaves(p, "CreateAccount", "loadEvents")
          /\ Created(callers[p].cmd.AccountID) )
        => /\ callers'[p].pc = "done"
           /\ callers'[p].err = ErrAccountExists
           /\ streams' = streams
           /\ snapshots' = snapshots]_vars

\* a CreateAccount for an existing account has returned ErrAccountExists
C11_Witness ==
    \E p \in ReturnedCommands :
        /\ callers[p].cmd.type = "CreateAccount"
        /\ callers[p].err = ErrAccountExists
        /\ Created(callers[p].cmd.AccountID)

\* ---------------------------------------------------------------------- C12

\* the commands of the service on an account that must exist
OnExisting == {"Deposit", "Withdraw", "ConvertCurrency", "TransferMoney"}

\* nothing is stored for id: no event and no snapshot
Unknown(id) == streams[id] = <<>> /\ snapshots[id] = <<>>

\* the step is a call of a handler on the aggregate of caller p
CallsHandler(p) ==
    /\ callers[p].pc = "aggregate"
    /\ issued' = issued + 1
    /\ \A q \in DOMAIN callers \ {p} : callers'[q] = callers[q]

\* C12, the handlers: called on an aggregate of version 0, every handler but
\* HandleCreateAccount returns a DomainError and leaves the aggregate as it
\* was, so the version leaves 0 only with an AccountCreated event.
C12_HandlersNeedCreatedAccount ==
    \A p \in DOMAIN callers :
        ( /\ CallsHandler(p)
          /\ callers[p].account.Version = 0 )
        => \/ /\ callers'[p].cmd.type = "HandleCreateAccount"
              /\ \/ callers'[p].account = callers[p].account
                 \/ /\ callers'[p].account.Version = 1
                    /\ callers'[p].account.changes[Len(callers'[p].account.changes)].Type
                           = AccountCreatedType
           \/ /\ callers'[p].cmd.type # "HandleCreateAccount"
              /\ callers'[p].err = DomainError
              /\ callers'[p].account = callers[p].account

\* C12, the service: Deposit, Withdraw, ConvertCurrency and TransferMoney on
\* an id without events and snapshot return ErrAccountNotFound from the load
\* (of the source, or of the target of a transfer), and store nothing.
C12_CommandsNeedCreatedAccount ==
    \A p \in DOMAIN callers :
        ( \/ /\ \E type \in OnExisting : Leaves(p, type, "loadEvents")
             /\ Unknown(AccountIDOf(callers[p].cmd))
          \/ /\ Leaves(p, "TransferMoney", "loadTargetEvents")
             /\ Unknown(callers[p].cmd.TargetAccountID) )
        => /\ callers'[p].pc = "done"
           /\ callers'[p].err = ErrAccountNotFound
           /\ streams' = streams
           /\ snapshots' = snapshots

\* C12: an aggregate leaves version 0 only through AccountCreated: every
\* stored stream starts with AccountCreated, the other handlers fail on a
\* version-0 aggregate, and the other commands fail on an unknown id without
\* storing anything.
C12_OnlyCreationLeavesUninitialized ==
    /\ [](\A id \in Ids : streams[id] # <<>> => Created(id))
    /\ [][C12_HandlersNeedCreatedAccount /\ C12_CommandsNeedCreatedAccount]_vars

\* a handler other than HandleCreateAccount has been refused on a version-0
\* aggregate, and a command on an unknown id has returned ErrAccountNotFound
C12_Witness ==
    /\ \E p \in DOMAIN callers :
        /\ callers[p].pc = "aggregate"
        /\ callers[p].cmd.type \in {"HandleDeposit", "HandleWithdraw",
                                    "HandleConvertCurrency", "HandleTransferMoney",
                                    "HandleInitiateTransfer", "HandleReceiveTransfer"}
        /\ callers[p].account.Version = 0
        /\ callers[p].err = DomainError
    /\ \E p \in ReturnedCommands :
        /\ callers[p].cmd.type \in OnExisting
        /\ callers[p].err = ErrAccountNotFound
        /\ Unknown(AccountIDOf(callers[p].cmd))

\* ---------------------------------------------------------------------- C13

\* the balance of currency that replaying the first n events of id gives
BalanceAt(s, id, n, currency) ==
    getBalance(ApplyEvents(NewAccount(id), SubSeq(s[id], 1, n)).acct, currency)

\* the step in which the TransferMoney of caller p returns success, and no
\* other call has been issued in the behaviour
TransferReturnsAlone(p) ==
    /\ callers[p].cmd.type = "TransferMoney"
    /\ InFlight(callers[p])
    /\ callers'[p].pc = "done"
    /\ callers'[p].err = NoError
    /\ issued = 1

\* C13: when TransferMoney returns success with no concurrent command, the
\* source balance of the currency is the one it loaded less the amount, the
\* target balance is the one it loaded plus the amount, each aggregate is one
\* version further, and the last event of each stream is a MoneyTransferred
\* event with the same transfer id.
C13_TransferMovesAmount ==
    [][\A p \in DOMAIN callers :
        TransferReturnsAlone(p) =>
          LET c == callers[p]
              source == c.cmd.SourceAccountID
              target == c.cmd.TargetAccountID
              debited == streams'[source][Len(streams'[source])]
              credited == streams'[target][Len(streams'[target])]
              sourceAfter == loadAccount(snapshots', streams', source).acct
              targetAfter == loadAccount(snapshots', streams', target).acct
          IN /\ getBalance(sourceAfter, c.cmd.Currency)
                  = BalanceAt(streams, source, c.initialVersion, c.cmd.Currency)
                      - c.cmd.Amount
             /\ getBalance(targetAfter, c.cmd.Currency)
                  = BalanceAt(streams, target, c.initialTargetVersion, c.cmd.Currency)
                      + c.cmd.Amount
             /\ sourceAfter.Version = c.initialVersion + 1
             /\ targetAfter.Version = c.initialTargetVersion + 1
             /\ debited.Type = MoneyTransferredType
             /\ credited.Type = MoneyTransferredType
             /\ debited.TransferID = credited.TransferID]_vars

\* C13 without the credit: all of the above but the target balance, which is
\* the one loaded LESS the amount, since ApplyEvent debits on every
\* MoneyTransferred event.
C13_TransferDebitsBoth ==
    [][\A p \in DOMAIN callers :
        TransferReturnsAlone(p) =>
          LET c == callers[p]
              source == c.cmd.SourceAccountID
              target == c.cmd.TargetAccountID
              debited == streams'[source][Len(streams'[source])]
              credited == streams'[target][Len(streams'[target])]
              sourceAfter == loadAccount(snapshots', streams', source).acct
              targetAfter == loadAccount(snapshots', streams', target).acct
          IN /\ getBalance(sourceAfter, c.cmd.Currency)
                  = BalanceAt(streams, source, c.initialVersion, c.cmd.Currency)
                      - c.cmd.Amount
             /\ getBalance(targetAfter, c.cmd.Currency)
                  = BalanceAt(streams, target, c.initialTargetVersion, c.cmd.Currency)
                      - c.cmd.Amount
             /\ sourceAfter.Version = c.initialVersion + 1
             /\ targetAfter.Version = c.initialTargetVersion + 1
             /\ debited.Type = MoneyTransferredType
             /\ credited.Type = MoneyTransferredType
             /\ debited.TransferID = credited.TransferID]_vars

\* the only call of the behaviour is a TransferMoney that has returned success
C13_Witness ==
    \E p \in ReturnedCommands :
        /\ callers[p].cmd.type = "TransferMoney"
        /\ callers[p].err = NoError
        /\ issued = 1

\* ---------------------------------------------------------------------- C14

\* the program points of TransferMoney before the append of the source debit
BeforeDebit ==
    {"loadSnapshot", "loadEvents", "loadTargetSnapshot", "loadTargetEvents", "handle"}

\* C14: TransferMoney changes no stream and no snapshot in any step before
\* the append of the source debit, and none in that append when it returns an
\* error; so a transfer that fails up to there (source or target missing,
\* handler rejects, source append fails) has had no effect.
C14_FailedBeforeDebitNoEffect ==
    [][\A p \in DOMAIN callers :
        ( \/ \E pc \in BeforeDebit : Leaves(p, "TransferMoney", pc)
          \/ /\ Leaves(p, "TransferMoney", "save")
             /\ callers'[p].err # NoError )
        => /\ streams' = streams
           /\ snapshots' = snapshots]_vars

\* a transfer has failed with ErrOptimisticLock at the append of the source
\* debit: the version after the one it loaded is another command's event
C14_Witness ==
    \E p \in ReturnedCommands :
        LET c == callers[p]
            src == streams[c.cmd.SourceAccountID]
        IN /\ c.cmd.type = "TransferMoney"
           /\ c.err = ErrOptimisticLock
           /\ Len(src) > c.initialVersion
           /\ src[c.initialVersion + 1].Type # MoneyTransferredType

\* ---------------------------------------------------------------------- C15

\* the stream holds the MoneyTransferred event of the transfer
HoldsTransfer(stream, transferID) ==
    \E k \in 1..Len(stream) :
        /\ stream[k].Type = MoneyTransferredType
        /\ stream[k].TransferID = transferID

\* C15: when the target's stream has been extended since TransferMoney
\* loaded the target, the credit append fails with ErrOptimisticLock, the
\* call returns that error and stores nothing more: the source stream keeps
\* the committed debit event of the transfer, and the target stream holds no
\* event of it.
C15_NoCompensation ==
    [][\A p \in DOMAIN callers :
        LET c == callers[p] IN
        ( /\ Leaves(p, "TransferMoney", "saveTarget")
          /\ CurrentVersion(streams[c.cmd.TargetAccountID]) > c.initialTargetVersion )
        => /\ callers'[p].pc = "done"
           /\ callers'[p].err = ErrOptimisticLock
           /\ streams' = streams
           /\ snapshots' = snapshots
           /\ HoldsTransfer(streams'[c.cmd.SourceAccountID], c.transferID)
           /\ ~HoldsTransfer(streams'[c.cmd.TargetAccountID], c.transferID)]_vars

\* a transfer has returned ErrOptimisticLock from its credit append: its
\* debit event is in the source stream, after the version it loaded, and the
\* target stream holds no event of that transfer
C15_Witness ==
    \E p \in ReturnedCommands :
        LET c == callers[p]
            src == streams[c.cmd.SourceAccountID]
        IN /\ c.cmd.type = "TransferMoney"
           /\ c.err = ErrOptimisticLock
           /\ Len(src) > c.initialVersion
           /\ src[c.initialVersion + 1].Type = MoneyTransferredType
           /\ src[c.initialVersion + 1].TargetAccountID = c.cmd.TargetAccountID
           /\ ~HoldsTransfer(streams[c.cmd.TargetAccountID],
                             src[c.initialVersion + 1].TransferID)

\* ---------------------------------------------------------------------- C16

\* the call of caller p is a transfer from an account to itself
SelfTransfer(p) ==
    /\ callers[p].cmd.type = "TransferMoney"
    /\ callers[p].cmd.SourceAccountID = callers[p].cmd.TargetAccountID

\* C16: a TransferMoney whose source and target are the same account changes
\* no stream and no snapshot in any of its steps, and when both loads have
\* succeeded its handler returns a DomainError with which the call returns.
C16_SelfTransferFails ==
    [][\A p \in DOMAIN callers :
        ( /\ SelfTransfer(p)
          /\ InFlight(callers[p])
          /\ callers'[p].pc # callers[p].pc )
        => /\ streams' = streams
           /\ snapshots' = snapshots
           /\ callers[p].pc = "handle"
                => /\ callers'[p].pc = "done"
                   /\ callers'[p].err = DomainError]_vars

\* a transfer from an existing account to itself has returned a DomainError
C16_Witness ==
    \E p \in ReturnedCommands :
        /\ SelfTransfer(p)
        /\ callers[p].err = DomainError
        /\ Created(callers[p].cmd.SourceAccountID)

\* ---------------------------------------------------------------------- C17

\* v is a positive multiple of SnapshotFrequency
PositiveMultiple(v) == \E k \in 1..v : v = k * SnapshotFrequency

\* the snapshot store holds, for the aggregate, a snapshot of its version and
\* balances
HoldsSnapshotOf(snaps, account) ==
    /\ snaps[account.ID] # <<>>
    /\ snaps[account.ID][1].Version = account.Version
    /\ Unmarshal(snaps[account.ID][1].State).Version = account.Version
    /\ Unmarshal(snaps[account.ID][1].State).Balances = account.Balances

\* the aggregate a caller has just saved or is saving: the target in the
\* credit half of a transfer, else the account of the command
Saved(c) == IF c.pc \in {"saveTarget", "snapshotTarget"} THEN c.target ELSE c.account

\* the step of caller p is a successful append of its events
Committed(p) ==
    /\ callers[p].pc \in {"save", "saveTarget"}
    /\ callers'[p].pc # callers[p].pc
    /\ ~(callers'[p].pc = "done" /\ callers'[p].err # NoError)

\* the step of caller p is the one after an append that left a snapshot due
AfterDueCommit(p) ==
    /\ callers[p].pc \in {"snapshot", "snapshotTarget"}
    /\ callers'[p].pc # callers[p].pc

\* C17: a command whose append leaves the aggregate at a positive multiple of
\* SnapshotFrequency writes, before it returns or goes on, a snapshot with
\* the version and balances of the aggregate it has just saved (which, when
\* no other call was issued, are those the stored events replay to); a
\* command whose append ends at any other version writes no snapshot, and
\* nothing else changes the snapshot store.
C17_SnapshotExactlyWhenDue ==
    [][/\ \A p \in DOMAIN callers :
            /\ Committed(p) =>
                 /\ snapshots' = snapshots
                 /\ PositiveMultiple(Saved(callers[p]).Version)
                      <=> callers'[p].pc \in {"snapshot", "snapshotTarget"}
            /\ AfterDueCommit(p) =>
                 LET account == Saved(callers[p]) IN
                 /\ PositiveMultiple(account.Version)
                 /\ HoldsSnapshotOf(snapshots', account)
                 /\ \A id \in Ids \ {account.ID} : snapshots'[id] = snapshots[id]
                 /\ issued = 1 =>
                      LET replayed == ApplyEvents(NewAccount(account.ID),
                                                  streams'[account.ID]).acct
                      IN /\ replayed.Version = account.Version
                         /\ replayed.Balances = account.Balances
       /\ snapshots' # snapshots => \E p \in DOMAIN callers : AfterDueCommit(p)]_vars

\* the only call of the behaviour took its account from version
\* SnapshotFrequency - 1 to SnapshotFrequency and has returned success, and
\* the snapshot of that version is stored
C17_Witness ==
    \E p \in ReturnedCommands :
        LET c == callers[p]
            id == AccountIDOf(c.cmd)
        IN /\ issued = 1
           /\ c.err = NoError
           /\ c.initialVersion = SnapshotFrequency - 1
           /\ Len(streams[id]) = SnapshotFrequency
           /\ snapshots[id] # <<>>
           /\ snapshots[id][1].Version = SnapshotFrequency

\* ---------------------------------------------------------------------- C18

\* the account has been created and n deposits of one USD have been applied
\* after it, all with success, and no call is running
DepositsDone(n) ==
    /\ issued = n + 1
    /\ \A p \in DOMAIN callers : callers[p].pc = "done" /\ callers[p].err = NoError

\* the USD balance the account was created with
InitialUSD == getBalance([Balances |-> streams["a1"][1].InitialBalances], "USD")

\* the USD balance of the stored snapshot of the account
SnapshotUSD == getBalance(Unmarshal(snapshots["a1"][1].State), "USD")

\* C18 as stated: after the creation and 100 deposits of 1 USD the stored
\* snapshot has version 100 and a USD balance of 100.
C18_SnapshotHoldsHundred ==
    DepositsDone(DepositsApplied) =>
        /\ snapshots["a1"] # <<>>
        /\ snapshots["a1"][1].Version = SnapshotFrequency
        /\ SnapshotUSD = DepositsApplied * Unit

\* C18 (amended): after the creation and 100 deposits of 1 USD the stored
\* snapshot has version 100 and the USD balance the account was created with
\* plus 99: the creation is version 1, so the snapshot is written by the 99th
\* deposit, and the 100th, which ends at version 101, writes none.
C18_SnapshotHoldsNinetyNineDeposits ==
    DepositsDone(DepositsApplied) =>
        /\ snapshots["a1"] # <<>>
        /\ snapshots["a1"][1].Version = SnapshotFrequency
        /\ SnapshotUSD = InitialUSD + (DepositsApplied - 1) * Unit
        /\ Len(streams["a1"]) = SnapshotFrequency + 1

\* an account created with a USD balance of 0 has received its 100 deposits
C18_Witness ==
    /\ DepositsDone(DepositsApplied)
    /\ InitialUSD = 0
    /\ snapshots["a1"] # <<>>

\* ---------------------------------------------------------------------- C19

\* the step in which the load of caller p's command reads the event store,
\* after it took a snapshot whose version is beyond the last stored event
LoadsWithSnapshotAhead(p) ==
    /\ callers[p].cmd.type \in OnExisting
    /\ callers[p].pc = "loadEvents"
    /\ callers'[p].pc # "loadEvents"
    /\ callers[p].snapshotVersion
         > CurrentVersion(streams[AccountIDOf(callers[p].cmd)])

\* C19: when the snapshot's version is greater than the highest version in
\* the event store, loadAccount gives what replaying the stored events gives:
\* the command goes on with that version and those balances, or returns the
\* error of the replay (ErrAccountNotFound without events).
C19_EventLogAuthoritative ==
    [][\A p \in DOMAIN callers :
        LoadsWithSnapshotAhead(p) =>
          LET id == AccountIDOf(callers[p].cmd)
              replayed == loadAccountEvents(streams, id, NewAccount(id), 0)
          IN IF replayed.err # NoError
             THEN /\ callers'[p].pc = "done"
                  /\ callers'[p].err = replayed.err
             ELSE /\ callers'[p].pc # "done"
                  /\ callers'[p].account.Version = replayed.acct.Version
                  /\ callers'[p].account.Balances = replayed.acct.Balances]_vars

\* what the load does instead: the command goes on with the version and
\* balances of the snapshot
C19_SnapshotWins ==
    [][\A p \in DOMAIN callers :
        LoadsWithSnapshotAhead(p) =>
          /\ callers'[p].pc # "done"
          /\ callers'[p].account.Version = callers[p].snapshotVersion
          /\ callers'[p].account.Balances = callers[p].account.Balances]_vars

\* a command has loaded its account at a version beyond the stored events
C19_Witness ==
    \E p \in DOMAIN callers :
        /\ callers[p].cmd.type \in OnExisting
        /\ callers[p].pc = "handle"
        /\ callers[p].initialVersion
             > CurrentVersion(streams[AccountIDOf(callers[p].cmd)])

\* ---------------------------------------------------------------------- C20

Queries == {"GetCurrentBalance", "GetTransactionHistory"}

\* the queries that have returned, and during which the versions stored for
\* their account have stayed as they were
QuietQueries ==
    {p \in Returned : /\ callers[p].cmd.type \in Queries
                      /\ callers[p].seen[1] = callers[p].seen[2]}

\* no step of a query changes a store
C20_QueriesWriteNothing ==
    \A p \in DOMAIN callers :
        ( /\ callers[p].cmd.type \in Queries
          /\ InFlight(callers[p])
          /\ callers'[p].pc # callers[p].pc )
        => /\ streams' = streams
           /\ snapshots' = snapshots

\* two calls of the same query between which (and during which) nothing was
\* written for the account have returned the same result and error
C20_QueriesRepeat ==
    \A p \in QuietQueries : \A q \in QuietQueries :
        ( /\ callers[p].cmd = callers[q].cmd
          /\ callers[p].seen = callers[q].seen )
        => /\ callers[p].result = callers[q].result
           /\ callers[p].err = callers[q].err

\* C20: GetCurrentBalance and GetTransactionHistory leave the event store
\* and the snapshot store unchanged, for existing and unknown accounts alike,
\* and two calls of a query with no write in between return equal results.
C20_QueriesReadOnly ==
    /\ []C20_QueriesRepeat
    /\ [][C20_QueriesWriteNothing]_vars

\* the same query has returned twice, with an answer, on an existing account
C20_Witness ==
    \E p \in QuietQueries : \E q \in QuietQueries \ {p} :
        /\ callers[p].cmd = callers[q].cmd
        /\ callers[p].seen = callers[q].seen
        /\ callers[p].err = NoError
        /\ callers[p].result # <<>>
        /\ Created(callers[p].cmd.AccountID)

\* the same query has returned ErrAccountNotFound twice on an unknown account
C20_WitnessUnknown ==
    \E p \in QuietQueries : \E q \in QuietQueries \ {p} :
        /\ callers[p].cmd = callers[q].cmd
        /\ callers[p].seen = callers[q].seen
        /\ callers[p].err = ErrAccountNotFound
        /\ Unknown(callers[p].cmd.AccountID)

\* ---------------------------------------------------------------------- C21

\* the amount of a command on an existing account
AmountOf(cmd) == IF cmd.type = "ConvertCurrency" THEN cmd.FromAmount ELSE cmd.Amount

\* the call of caller p is a command on an existing account with an amount
\* that is zero or negative
NonPositive(p) ==
    /\ callers[p].cmd.type \in OnExisting
    /\ AmountOf(callers[p].cmd) <= 0

\* C21: Deposit, Withdraw, ConvertCurrency and TransferMoney with an amount
\* that is zero or negative append no event in any of their steps, and once
\* their account (for a transfer both accounts) is loaded, whatever its
\* balances, the handler returns a DomainError with which the call returns.
C21_NonPositiveAmountFails ==
    [][\A p \in DOMAIN callers :
        ( /\ NonPositive(p)
          /\ InFlight(callers[p])
          /\ callers'[p].pc # callers[p].pc )
        => /\ streams' = streams
           /\ snapshots' = snapshots
           /\ callers'[p].pc = "done" => callers'[p].err # NoError
           /\ callers[p].pc = "handle"
                => /\ callers'[p].pc = "done"
                   /\ callers'[p].err = DomainError]_vars

\* a command has returned a DomainError for an amount that is
\* zero or negative on an existing account
C21_Witness ==
    \E p \in ReturnedCommands :
        /\ NonPositive(p)
        /\ callers[p].err = DomainError
        /\ Created(AccountIDOf(callers[p].cmd))
        /\ getBalance(loadAccount(snapshots, streams, AccountIDOf(callers[p].cmd)).acct,
                      "USD") > Unit

\* ---------------------------------------------------------------------- C22

\* the aggregate is Active: created, with an id
Active(a) == a.ID # "" /\ a.Version > 0

\* the step calls handler type on the Active aggregate of caller p
CallsOnActive(p, type) ==
    /\ CallsHandler(p)
    /\ Active(callers[p].account)
    /\ callers'[p].cmd.type = type

\* The call debits amount of currency: it succeeds iff the held balance (0
\* when not held) is at least amount; then the balance of the currency is
\* lower by exactly amount and the entry is kept, at 0 when the whole balance
\* went; otherwise it fails with ErrInsufficientFunds and changes nothing.
DebitsAtThreshold(p, amount, currency) ==
    LET a == callers[p].account
        b == callers'[p].account IN
    /\ callers'[p].err = NoError <=> getBalance(a, currency) >= amount
    /\ callers'[p].err = NoError
          => /\ currency \in DOMAIN b.Balances
             /\ b.Balances[currency] = getBalance(a, currency) - amount
             /\ b.Version = a.Version + 1
    /\ callers'[p].err # NoError
          => /\ callers'[p].err = ErrInsufficientFunds
             /\ b = a

\* C22: on an Active account and for a positive amount HandleWithdraw
\* succeeds iff the held balance of the currency (0 when not held) is at
\* least the amount; on success the balance decreases by exactly the amount
\* (to exactly 0 when the whole balance is withdrawn), otherwise the call
\* fails with ErrInsufficientFunds. The debit of HandleConvertCurrency
\* (between two currencies) and of a transfer (to another account) has the
\* same threshold.
C22_DebitThreshold ==
    [][\A p \in HandlerCallers :
        LET c == callers'[p].cmd IN
        /\ (CallsOnActive(p, "HandleWithdraw") /\ c.amount > 0)
              => DebitsAtThreshold(p, c.amount, c.currency)
        /\ ( /\ CallsOnActive(p, "HandleConvertCurrency")
             /\ c.fromAmount > 0
             /\ c.fromCurrency # c.toCurrency )
              => DebitsAtThreshold(p, c.fromAmount, c.fromCurrency)
        /\ ( /\ \/ CallsOnActive(p, "HandleTransferMoney")
                \/ CallsOnActive(p, "HandleInitiateTransfer")
             /\ c.debitAmount > 0
             /\ c.targetAccountID # callers[p].account.ID )
              => DebitsAtThreshold(p, c.debitAmount, "USD")]_vars

\* HandleWithdraw has withdrawn exactly the held balance, which left the
\* entry of the currency at 0, and the next withdrawal of the same currency
\* has failed for lack of funds
C22_Witness ==
    \E p \in HandlerCallers :
        /\ callers[p].cmd.type = "HandleWithdraw"
        /\ callers[p].cmd.amount > 0
        /\ callers[p].err = ErrInsufficientFunds
        /\ callers[p].cmd.currency \in DOMAIN callers[p].account.Balances
        /\ callers[p].account.Balances[callers[p].cmd.currency] = 0
        /\ Len(callers[p].account.changes) = 2
        /\ callers[p].account.changes[2].Type = WithdrawalMadeType

\* ---------------------------------------------------------------------- C23

\* C23: a successful HandleConvertCurrency(fromAmount, from, to, rate) emits
\* one CurrencyConverted event whose toAmount is exactly fromAmount * rate,
\* decreases the balance of from by fromAmount, increases the balance of to
\* by toAmount (the entry is created when to was not held), changes no other
\* currency and raises the version by 1.
C23_ConvertMovesExactProduct ==
    [][\A p \in HandlerCallers :
        ( /\ CallsHandler(p)
          /\ callers'[p].cmd.type = "HandleConvertCurrency"
          /\ callers'[p].err = NoError )
        => LET a == callers[p].account
               b == callers'[p].account
               c == callers'[p].cmd
               rate == getExchangeRate(c.fromCurrency, c.toCurrency).rate
               e == b.changes[Len(b.changes)] IN
           /\ b.changes = Append(a.changes, e)
           /\ e.Type = CurrencyConvertedType
           /\ e.Version = b.Version
           /\ e.FromAmount = c.fromAmount /\ e.FromCurrency = c.fromCurrency
           /\ e.ToCurrency = c.toCurrency /\ e.ExchangeRate = rate
           /\ e.ToAmount * Unit = c.fromAmount * rate
           /\ getBalance(b, c.fromCurrency) = getBalance(a, c.fromCurrency) - c.fromAmount
           /\ c.toCurrency \in DOMAIN b.Balances
           /\ b.Balances[c.toCurrency] = getBalance(a, c.toCurrency) + e.ToAmount
           /\ DOMAIN b.Balances = DOMAIN a.Balances \cup {c.toCurrency}
           /\ \A cur \in DOMAIN a.Balances \ {c.fromCurrency, c.toCurrency} :
                 b.Balances[cur] = a.Balances[cur]
           /\ b.Version = a.Version + 1
           /\ b.ID = a.ID]_vars

\* HandleConvertCurrency has converted USD into EUR, which the account did
\* not hold before, on an account that also holds GBP
C23_Witness ==
    \E p \in HandlerCallers :
        LET a == callers[p].account IN
        /\ callers[p].cmd.type = "HandleConvertCurrency"
        /\ callers[p].err = NoError
        /\ Len(a.changes) = 2
        /\ a.changes[2].Type = CurrencyConvertedType
        /\ a.changes[2].ToAmount > 0
        /\ DOMAIN a.Balances = {"USD", "GBP", "EUR"}
        /\ a.Balances["GBP"] = Unit
        /\ a.Balances["EUR"] = a.changes[2].ToAmount

\* ---------------------------------------------------------------------- C24

\* the aggregate of id before and after its n-th stored event is applied
Before(id, n) == ApplyEvents(NewAccount(id), SubSeq(streams[id], 1, n - 1)).acct

After(id, n) == ApplyEvent(Before(id, n), streams[id][n]).acct

\* the stored MoneyTransferred events, as pairs of a stream and a position
StoredTransfers ==
    UNION { { <<i, n>> : n \in { k \in 1..Len(streams[i]) :
                                   streams[i][k].Type = MoneyTransferredType } } :
            i \in Ids }

\* C24: applying a MoneyTransferred event is direction-sensitive: on the
\* aggregate whose id is the event's TargetAccountID it adds CreditedAmount
\* to CreditedCurrency and debits nothing; on the aggregate whose id is the
\* event's SourceAccountID it subtracts DebitedAmount from DebitedCurrency
\* and credits nothing.
C24_ApplyIsDirectionSensitive ==
    \A x \in StoredTransfers :
        LET id == x[1]
            e == streams[id][x[2]]
            a == Before(id, x[2])
            b == After(id, x[2]) IN
        /\ e.TargetAccountID = id
              => /\ getBalance(b, e.CreditedCurrency)
                      = getBalance(a, e.CreditedCurrency) + e.CreditedAmount
                 /\ \A cur \in Currencies \ {e.CreditedCurrency} :
                       getBalance(b, cur) = getBalance(a, cur)
        /\ e.SourceAccountID = id
              => /\ getBalance(b, e.DebitedCurrency)
                      = getBalance(a, e.DebitedCurrency) - e.DebitedAmount
                 /\ \A cur \in Currencies \ {e.DebitedCurrency} :
                       getBalance(b, cur) = getBalance(a, cur)

\* the part of C24 that holds: on the source the event debits DebitedAmount
\* and credits nothing
C24_SourceIsDebited ==
    \A x \in StoredTransfers :
        LET id == x[1]
            e == streams[id][x[2]]
            a == Before(id, x[2])
            b == After(id, x[2]) IN
        e.SourceAccountID = id
           => /\ getBalance(b, e.DebitedCurrency)
                   = getBalance(a, e.DebitedCurrency) - e.DebitedAmount
              /\ \A cur \in Currencies \ {e.DebitedCurrency} :
                    getBalance(b, cur) = getBalance(a, cur)

\* the event of one transfer is stored in the stream of its source and in the
\* stream of its target, where replay applies it
C24_Witness ==
    \E x \in StoredTransfers, y \in StoredTransfers :
        /\ streams[x[1]][x[2]].SourceAccountID = x[1]
        /\ streams[y[1]][y[2]].TargetAccountID = y[1]
        /\ streams[x[1]][x[2]].TransferID = streams[y[1]][y[2]].TransferID
        /\ x[1] # y[1]

\* ---------------------------------------------------------------------- C25

\* the amount and the currency event e debits, for the events that debit
DebitOf(e) ==
    IF e.Type = WithdrawalMadeType THEN [amount |-> e.Amount, currency |-> e.Currency]
    ELSE IF e.Type = CurrencyConvertedType
         THEN [amount |-> e.FromAmount, currency |-> e.FromCurrency]
    ELSE [amount |-> e.DebitedAmount, currency |-> e.DebitedCurrency]

\* applying e to a must fail: its version is not the next one, or its debit
\* would make a balance negative
MustFail(a, e) ==
    \/ e.Version # a.Version + 1
    \/ /\ e.Type \in {WithdrawalMadeType, CurrencyConvertedType, MoneyTransferredType}
       /\ getBalance(a, DebitOf(e).currency) < DebitOf(e).amount

\* C25: ApplyEvent is atomic on failure: when the version of the event is not
\* the version of the aggregate plus 1, or when its debit (WithdrawalMade,
\* CurrencyConverted, MoneyTransferred) would make a balance negative,
\* ApplyEvent returns an error and leaves the id, the version and every
\* balance as they were; a failed CurrencyConverted credits nothing either.
C25_ApplyEventAtomicOnFailure ==
    [][\A p \in HandlerCallers :
        (CallsHandler(p) /\ callers'[p].cmd.type = "ApplyEvent")
        => LET a == callers[p].account
               b == callers'[p].account
               e == callers'[p].cmd.event IN
           /\ MustFail(a, e) => callers'[p].err # NoError
           /\ callers'[p].err # NoError
                 => /\ b.ID = a.ID
                    /\ b.Version = a.Version
                    /\ b.Balances = a.Balances
                    /\ b.changes = a.changes]_vars

\* ApplyEvent has failed on a CurrencyConverted event of the right version
\* whose debit exceeds the held balance, and the account holds no EUR
C25_Witness ==
    \E p \in HandlerCallers :
        LET a == callers[p].account IN
        /\ callers[p].cmd.type = "ApplyEvent"
        /\ callers[p].err = ErrInvariant
        /\ callers[p].cmd.event.Type = CurrencyConvertedType
        /\ callers[p].cmd.event.Version = a.Version + 1
        /\ "EUR" \notin DOMAIN a.Balances

\* ---------------------------------------------------------------------- C26

\* C26: under any interleaving of service commands, every snapshot held in
\* the snapshot store, with version v for aggregate id, holds the balances
\* that replaying exactly the first v events of the stored stream of id gives.
C26_SnapshotIsPrefixReplay ==
    \A id \in Ids : \A k \in 1..Len(snapshots[id]) :
        LET snap == snapshots[id][k]
            v == snap.Version IN
        /\ snap.AggregateID = id
        /\ v <= Len(streams[id])
        /\ LET replayed == ApplyEvents(NewAccount(id), SubSeq(streams[id], 1, v)) IN
           /\ replayed.err = NoError
           /\ Unmarshal(snap.State).Balances = replayed.acct.Balances
           /\ Unmarshal(snap.State).Version = v

\* two commands ran on one aggregate at version 99: one has committed
\* version 100 and its snapshot is stored, the other has lost the append
C26_Witness ==
    \E p \in ReturnedCommands, q \in ReturnedCommands :
        LET id == AccountIDOf(callers[p].cmd) IN
        /\ p # q
        /\ AccountIDOf(callers[q].cmd) = id
        /\ callers[p].err = NoError
        /\ callers[p].initialVersion = SnapshotFrequency - 1
        /\ callers[q].err = ErrOptimisticLock
        /\ snapshots[id] # <<>>
        /\ snapshots[id][1].Version = SnapshotFrequency
        /\ Len(streams[id]) = SnapshotFrequency

\* ---------------------------------------------------------------------- C27

\* C27: when the stores are written only through the service, the version of
\* the stored snapshot of an aggregate is never greater than the highest
\* event version stored for that aggregate, in every reachable state.
C27_SnapshotNotAhead ==
    \A id \in Ids :
        LET got == GetLatestSnapshot(snapshots, id) IN
        got.found => got.snapshot[1].Version <= CurrentVersion(streams[id])

\* a command has appended the event of version 100 and written the snapshot
\* of version 100, on a store that held no snapshot before
C27_Witness ==
    \E p \in ReturnedCommands :
        LET id == AccountIDOf(callers[p].cmd) IN
        /\ callers[p].err = NoError
        /\ callers[p].initialVersion = SnapshotFrequency - 1
        /\ snapshots[id] # <<>>
        /\ snapshots[id][1].Version = SnapshotFrequency
        /\ CurrentVersion(streams[id]) = SnapshotFrequency

\* ---------------------------------------------------------------------- C28

\* event e is the event of a transfer stored in the stream of its target
IsCredit(id, e) ==
    /\ e.Type = MoneyTransferredType
    /\ e.TargetAccountID = id

\* the stream of the source of e holds the debit event of the transfer of e
SourceDebited(s, e) ==
    \E k \in 1..Len(s[e.SourceAccountID]) :
        LET d == s[e.SourceAccountID][k] IN
        /\ d.Type = MoneyTransferredType
        /\ d.TransferID = e.TransferID
        /\ d.AggregateID = e.SourceAccountID
        /\ d.TargetAccountID = e.TargetAccountID
        /\ d.DebitedAmount = e.DebitedAmount

\* C28: no credit without a debit.  Under any interleaving of TransferMoney
\* calls and other commands, a MoneyTransferred event is appended to the
\* stream of a target only when the stream of the source already holds the
\* MoneyTransferred event of the same transfer; so in no reachable state does
\* a target stream hold the event of a transfer that the source stream lacks.
C28_NoCreditWithoutDebit ==
    /\ [](\A id \in Ids : \A k \in 1..Len(streams[id]) :
            IsCredit(id, streams[id][k]) => SourceDebited(streams, streams[id][k]))
    /\ [][\A id \in Ids : \A k \in (Len(streams[id]) + 1)..Len(streams'[id]) :
            IsCredit(id, streams'[id][k])
               => SourceDebited(streams, streams'[id][k])]_vars

\* while a deposit ran on the source, a transfer has stored its debit in the
\* stream of the source and then its credit event in the stream of the target
C28_Witness ==
    \E p \in ReturnedCommands, q \in ReturnedCommands :
        LET c == callers[p]
            tgt == streams[c.cmd.TargetAccountID] IN
        /\ c.cmd.type = "TransferMoney"
        /\ c.err = NoError
        /\ callers[q].cmd.type = "Deposit"
        /\ callers[q].cmd.AccountID = c.cmd.SourceAccountID
        /\ callers[q].err = ErrOptimisticLock
        /\ IsCredit(c.cmd.TargetAccountID, tgt[Len(tgt)])
        /\ tgt[Len(tgt)].SourceAccountID = c.cmd.SourceAccountID
        /\ SourceDebited(streams, tgt[Len(tgt)])

\* ---------------------------------------------------------------------- C29

NotTransfer(e) == e.Type # MoneyTransferredType

\* the sum over all accounts of the USD balance that replaying s gives
Total(s) == Sum([i \in Ids |-> BalanceAt(s, i, Len(s[i]), "USD")])

\* the sum before any transfer: the streams without the events of transfers,
\* which are the last events of each stream when nothing but transfers runs
InitialTotal == Total([i \in Ids |-> SelectSeq(streams[i], NotTransfer)])

\* the debit events of the transfers whose credit event is in no stream
DebitedOnly ==
    { x \in StoredTransfers :
        LET e == streams[x[1]][x[2]] IN
        /\ e.SourceAccountID = x[1]
        /\ ~HoldsTransfer(streams[e.TargetAccountID], e.TransferID) }

\* the amounts of the transfers that failed after their debit was committed
Lost == Sum([x \in DebitedOnly |-> streams[x[1]][x[2]].DebitedAmount])

\* every call has returned
Quiescent == \A p \in DOMAIN callers : ~InFlight(callers[p])

\* C29: TransferMoney never creates money.  Under any interleaving of
\* concurrent TransferMoney calls and no other command, the sum over all
\* accounts of the balance in a currency never exceeds its initial value;
\* once the calls have returned it is lower than initially by exactly the
\* amounts of the transfers that failed after their debit was committed, so
\* the transfers that returned success have left it unchanged.
C29_TransfersConserveMoney ==
    /\ Total(streams) <= InitialTotal
    /\ Quiescent => Total(streams) = InitialTotal - Lost

\* the part of C29 that holds: the sum never exceeds its initial value
C29_NeverCreatesMoney == Total(streams) <= InitialTotal

\* one transfer has returned success and another has failed after its debit
\* was committed
C29_Witness ==
    /\ Quiescent
    /\ DebitedOnly # {}
    /\ \E p \in ReturnedCommands, q \in ReturnedCommands :
          /\ callers[p].cmd.type = "TransferMoney" /\ callers[p].err = NoError
          /\ callers[q].cmd.type = "TransferMoney" /\ callers[q].err # NoError

\* ---------------------------------------------------------------------- C30

\* the CreateAccount calls for id that have returned
ReturnedCreates(id) ==
    { p \in DOMAIN callers :
        /\ callers[p].pc = "done"
        /\ callers[p].cmd.type = "CreateAccount"
        /\ callers[p].cmd.AccountID = id }

\* C30: of the CreateAccount calls that run concurrently with one explicit
\* account id at most one returns success; every other one fails with
\* ErrAccountExists or with the optimistic-lock error, and the stream of the
\* id holds exactly one event, an AccountCreated of version 1 that carries the
\* initial balances of the call that succeeded.
C30_OneCreationWins ==
    \A id \in Ids :
        /\ \A p \in ReturnedCreates(id), q \in ReturnedCreates(id) :
              (callers[p].err = NoError /\ callers[q].err = NoError) => p = q
        /\ \A p \in ReturnedCreates(id) :
              /\ callers[p].err \in {NoError, ErrAccountExists, ErrOptimisticLock}
              /\ callers[p].err = NoError
                    => /\ Len(streams[id]) = 1
                       /\ streams[id][1].Type = AccountCreatedType
                       /\ streams[id][1].Version = 1
                       /\ streams[id][1].AggregateID = id
                       /\ streams[id][1].InitialBalances = callers[p].cmd.InitialBalances
        /\ ReturnedCreates(id) # {}
              => /\ Len(streams[id]) = 1
                 /\ \E p \in DOMAIN callers :
                       /\ callers[p].cmd.type = "CreateAccount"
                       /\ callers[p].cmd.AccountID = id
                       /\ streams[id][1].InitialBalances = callers[p].cmd.InitialBalances

\* three calls have raced for one id with different initial balances: one has
\* won, one has lost at the append and one has found the account
C30_Witness ==
    \E id \in Ids : \E p \in ReturnedCreates(id), q \in ReturnedCreates(id), r \in ReturnedCreates(id) :
        /\ callers[p].err = NoError
        /\ callers[q].err = ErrOptimisticLock
        /\ callers[r].err = ErrAccountExists
        /\ callers[q].cmd.InitialBalances # callers[p].cmd.InitialBalances
        /\ callers[r].cmd.InitialBalances # callers[p].cmd.InitialBalances

\* ---------------------------------------------------------------------- C31

\* no event has been appended to the aggregate of the command of caller p
\* since the command loaded it
Untouched(p) ==
    Len(streams[AccountIDOf(callers[p].cmd)]) = callers[p].initialVersion

\* C31: the core does not retry: a command attempts one append per aggregate
\* and an append that fails with ErrOptimisticLock ends the call with that
\* error, nothing stored.  A single-aggregate command that runs from its load
\* to its append while no other command appends to the same aggregate never
\* fails with ErrOptimisticLock; so the retry of a caller that reloads
\* succeeds once the concurrent writers have stopped.
C31_ConflictIsTransient ==
    [][\A p \in DOMAIN callers :
        ( /\ callers[p].cmd.type \in SingleAggregate
          /\ callers[p].pc = "save"
          /\ callers'[p].pc # "save" )
        => /\ Untouched(p) => callers'[p].err # ErrOptimisticLock
           /\ ~Untouched(p)
                 => /\ callers'[p].pc = "done"
                    /\ callers'[p].err = ErrOptimisticLock
                    /\ streams' = streams
                    /\ snapshots' = snapshots
           /\ Len(streams'[AccountIDOf(callers[p].cmd)])
                 <= Len(streams[AccountIDOf(callers[p].cmd)]) + 1]_vars

\* both callers have deposited: one of them lost the append to the other,
\* called Deposit again and succeeded
C31_Witness ==
    /\ \A p \in DOMAIN callers :
          /\ callers[p].pc = "done"
          /\ callers[p].err = NoError
          /\ callers[p].cmd.type = "Deposit"
    /\ issued = Cardinality(DOMAIN callers) + 1
    /\ Len(streams["a1"]) = SnapshotFrequency + 1

\* ---------------------------------------------------------------------- C32

\* the step in which the TransferMoney of caller p fails after its debit was
\* committed: the receive handler rejects or the append to the target fails
FailsAfterDebit(p) ==
    /\ callers[p].cmd.type = "TransferMoney"
    /\ callers[p].pc \in {"receive", "saveTarget"}
    /\ callers'[p].pc = "done"
    /\ callers'[p].err # NoError

\* the message names value under label
Names(message, label, value) ==
    label \in DOMAIN message /\ message[label] = value

\* C32: whenever TransferMoney fails after the source debit has been
\* committed (the receive handler rejects, or the target append fails), the
\* error it returns identifies the transferId, the debited source account and
\* the un-credited target account.
C32_ErrorNamesTransferSourceTarget ==
    [][\A p \in DOMAIN callers :
        FailsAfterDebit(p)
        => LET c == callers[p]
               m == callers'[p].message IN
           /\ HoldsTransfer(streams[c.cmd.SourceAccountID], c.transferID)
           /\ Names(m, "TransferID", c.transferID)
           /\ Names(m, "source", c.cmd.SourceAccountID)
           /\ Names(m, "target", c.cmd.TargetAccountID)]_vars

\* the part of C32 that holds: the error names the transferId and the target
\* in both cases, and the source when the receive handler rejects
C32_ErrorNamesTransferTarget ==
    [][\A p \in DOMAIN callers :
        FailsAfterDebit(p)
        => LET c == callers[p]
               m == callers'[p].message IN
           /\ HoldsTransfer(streams[c.cmd.SourceAccountID], c.transferID)
           /\ Names(m, "TransferID", c.transferID)
           /\ Names(m, "target", c.cmd.TargetAccountID)
           /\ c.pc = "receive" => Names(m, "source", c.cmd.SourceAccountID)]_vars

\* a transfer has failed at the append to the target, after its debit was
\* stored, with an error that does not name the source
C32_Witness ==
    \E p \in ReturnedCommands :
        /\ callers[p].cmd.type = "TransferMoney"
        /\ callers[p].err = ErrOptimisticLock
        /\ callers[p].message # <<>>
        /\ "source" \notin DOMAIN callers[p].message

\* ---------------------------------------------------------------------- C33

\* the step applies, with ApplyEvent, an event that carries the id of another
\* aggregate to the Active aggregate of caller p
AppliesForeignEvent(p) ==
    /\ CallsHandler(p)
    /\ callers'[p].cmd.type = "ApplyEvent"
    /\ Active(callers[p].account)
    /\ callers'[p].cmd.event.AggregateID # callers[p].account.ID

\* C33: the id of the aggregate equals the aggregateId of every event applied
\* to it: ApplyEvent on an Active aggregate of an event whose aggregateId
\* differs from the id of the aggregate fails without mutating, even when the
\* version of the event is the version of the aggregate plus 1.
C33_ForeignEventRejected ==
    [][\A p \in HandlerCallers :
        AppliesForeignEvent(p)
        => /\ callers'[p].err # NoError
           /\ callers'[p].account = callers[p].account]_vars

\* the part of C33 that holds: an event of another aggregate whose version is
\* not the next one fails without mutating
C33_ForeignEventOfWrongVersionRejected ==
    [][\A p \in HandlerCallers :
        ( /\ AppliesForeignEvent(p)
          /\ callers'[p].cmd.event.Version # callers[p].account.Version + 1 )
        => /\ callers'[p].err # NoError
           /\ callers'[p].account = callers[p].account]_vars

\* ApplyEvent has applied a deposit that carries the id of another aggregate:
\* the version and the balance of the aggregate have moved
C33_Witness ==
    \E p \in HandlerCallers :
        LET a == callers[p].account
            e == callers[p].cmd.event IN
        /\ callers[p].cmd.type = "ApplyEvent"
        /\ callers[p].err = NoError
        /\ e.Type = DepositMadeType
        /\ e.AggregateID # a.ID
        /\ a.Version = e.Version
        /\ a.Version = 2
        /\ getBalance(a, "USD") >= e.Amount

\* ---------------------------------------------------------------------- C34

\* the command handlers of the aggregate
Handlers ==
    {"HandleCreateAccount", "HandleDeposit", "HandleWithdraw", "HandleConvertCurrency",
     "HandleTransferMoney", "HandleInitiateTransfer", "HandleReceiveTransfer"}

\* the step is a call of GetUncommitedChanges by caller p
Drains(p) ==
    /\ callers[p].pc = "aggregate"
    /\ issued' = issued
    /\ callers'[p] # callers[p]
    /\ callers'[p].cmd.type = "GetUncommitedChanges"

\* C34: every command handler that succeeds produces exactly one event whose
\* version is the version of the aggregate before the command plus 1 and
\* whose aggregateId is the id of the aggregate, applies it, so that the
\* version of the aggregate rises by exactly 1 to the version of the event,
\* and appends it to the pending changes.  GetUncommitedChanges returns the
\* pending changes, exactly that event after a command on an aggregate with
\* nothing pending, and leaves none, so that a second call returns an empty
\* sequence; ApplyEvents never adds to the pending changes.
C34_OneEventPerHandler ==
    [][\A p \in HandlerCallers :
        LET a == callers[p].account
            b == callers'[p].account
            c == callers'[p].cmd IN
        /\ (CallsHandler(p) /\ c.type \in Handlers /\ callers'[p].err = NoError)
              => /\ Len(b.changes) = Len(a.changes) + 1
                 /\ b.changes = Append(a.changes, b.changes[Len(b.changes)])
                 /\ b.changes[Len(b.changes)].Version = a.Version + 1
                 /\ b.changes[Len(b.changes)].AggregateID = b.ID
                 /\ b.Version = a.Version + 1
                 /\ c.type # "HandleCreateAccount" => b.ID = a.ID
        /\ Drains(p)
              => /\ c.returned = a.changes
                 /\ b = [a EXCEPT !.changes = <<>>]
                 /\ callers[p].cmd.type \in Handlers /\ callers[p].err = NoError
                       /\ Len(a.changes) = 1
                       => /\ c.returned = <<a.changes[1]>>
                          /\ c.returned[1].Version = a.Version
                 /\ callers[p].cmd.type = "GetUncommitedChanges" => c.returned = <<>>
        /\ (CallsHandler(p) /\ c.type = "ApplyEvents")
              => b.changes = a.changes]_vars

\* after a deposit on an aggregate with nothing pending, GetUncommitedChanges
\* has returned exactly the DepositMade event and left nothing pending
C34_Witness ==
    \E p \in HandlerCallers :
        LET a == callers[p].account
            returned == callers[p].cmd.returned IN
        /\ callers[p].cmd.type = "GetUncommitedChanges"
        /\ Len(returned) = 1
        /\ returned[1].Type = DepositMadeType
        /\ returned[1].Version = 2
        /\ a.Version = 2
        /\ a.changes = <<>>

\* ---------------------------------------------------------------------- C35

\* the versions asked for on a stream: below, at and above each of its ends
VersionsAsked(stream) ==
    {0 - 1, 0, 1, Len(stream) - 1, Len(stream), Len(stream) + 1}

\* the stored events of the stream whose version is above v, in stored order
NewerThan(stream, v) ==
    LET Newer(e) == e.Version > v IN SelectSeq(stream, Newer)

\* the step in which a call reads the events after a version
ReadsEventsAfter(p) ==
    /\ callers[p].pc \in {"loadEvents", "loadTargetEvents"}
    /\ callers'[p].pc # callers[p].pc

\* C35: for every aggregate id and every integer v, GetEventsAfterVersion
\* (id, v) returns exactly the stored events whose version is above v, in
\* stored order (the suffix of the stream that starts at version v + 1), and
\* an empty sequence when v is at or beyond the stored version or the
\* aggregate is unknown; the read leaves the store unchanged.
C35_EventsAfterVersionIsSuffix ==
    /\ [](\A id \in Ids : \A v \in VersionsAsked(streams[id]) :
            LET got == GetEventsAfterVersion(streams, id, v) IN
            /\ got = NewerThan(streams[id], v)
            /\ v \in 0..Len(streams[id])
                  => got = SubSeq(streams[id], v + 1, Len(streams[id]))
            /\ v < 0 => got = streams[id]
            /\ v >= CurrentVersion(streams[id]) => got = <<>>
            /\ streams[id] = <<>> => got = <<>>)
    /\ [][\A p \in DOMAIN callers :
            ReadsEventsAfter(p) => streams' = streams /\ snapshots' = snapshots]_vars

\* two commands have appended after the snapshot of version 100: the events
\* after version 100 are the two last events of the stream of 102
C35_Witness ==
    \E id \in Ids :
        /\ snapshots[id] # <<>>
        /\ snapshots[id][1].Version = SnapshotFrequency
        /\ Len(streams[id]) = SnapshotFrequency + 2
        /\ Len(GetEventsAfterVersion(streams, id, SnapshotFrequency)) = 2
        /\ GetEventsAfterVersion(streams, id, SnapshotFrequency)[1].Version
              = SnapshotFrequency + 1

\* ---------------------------------------------------------------------- C36

\* event e is the event of a transfer within one currency
SameCurrencyTransfer(e) ==
    /\ e.Type = MoneyTransferredType
    /\ e.DebitedCurrency = e.CreditedCurrency

\* C36: every MoneyTransferred event that the debit handler of a transfer
\* emits with debitedCurrency = creditedCurrency has creditedAmount =
\* debitedAmount and exchangeRate = 1: a transfer within one currency whose
\* credit amount differs from the debit amount emits no event, and a rate
\* other than 1 is never recorded in the event.
C36_SameCurrencyTransferIsOneToOne ==
    /\ [](\A p \in HandlerCallers :
            \A k \in 1..Len(callers[p].account.changes) :
               LET e == callers[p].account.changes[k] IN
               SameCurrencyTransfer(e)
                  => e.CreditedAmount = e.DebitedAmount /\ e.ExchangeRate = Unit)
    /\ [][\A p \in HandlerCallers :
            LET c == callers'[p].cmd IN
            ( /\ CallsHandler(p)
              /\ c.type \in {"HandleTransferMoney", "HandleInitiateTransfer"}
              /\ c.creditCurrency = "USD"
              /\ c.creditAmount # c.debitAmount )
            => /\ callers'[p].err # NoError
               /\ callers'[p].account = callers[p].account]_vars

\* the debit handler was given a rate below 1 for a transfer within USD and
\* has emitted the event with rate 1
C36_Witness ==
    \E p \in HandlerCallers :
        LET a == callers[p].account IN
        /\ callers[p].cmd.type \in {"HandleTransferMoney", "HandleInitiateTransfer"}
        /\ callers[p].err = NoError
        /\ callers[p].cmd.creditCurrency = "USD"
        /\ callers[p].cmd.rate = Rates["USD"]["EUR"]
        /\ SameCurrencyTransfer(a.changes[Len(a.changes)])
        /\ a.changes[Len(a.changes)].ExchangeRate = Unit

\* ---------------------------------------------------------------------- C37

C37_EventsCarryStreamId ==
    \A id \in Ids : \A k \in 1..Len(streams[id]) : streams[id][k].AggregateID = id

C38_SnapshotVersionNeverDecreases ==
    [][\A i \in Ids :
          snapshots[i] # <<>> =>
             /\ snapshots'[i] # <<>>
             /\ snapshots'[i][1].Version >= snapshots[i][1].Version]_vars

\* C38: a write of a snapshot that is less than SnapshotFrequency versions
\* behind the stored events of its aggregate never lowers the version of the
\* stored snapshot, and no step removes a stored snapshot.
C38_TimelySnapshotNeverDecreases ==
    [][\A i \in Ids :
          snapshots[i] # <<>> =>
             /\ snapshots'[i] # <<>>
             /\ CurrentVersion(streams'[i]) - snapshots'[i][1].Version
                   < SnapshotFrequency
                => snapshots'[i][1].Version >= snapshots[i][1].Version]_vars

\* The snapshot of version 200 stands where the late caller's snapshot of
\* version 100 stood: the late caller has returned from its deposit, which
\* wrote its snapshot in time, and the other caller's deposits went on to
\* version 200.
C38_Witness ==
    /\ snapshots["a1"] # <<>>
    /\ snapshots["a1"][1].Version = 2 * SnapshotFrequency
    /\ callers[LateCaller].pc = "done"
    /\ callers[LateCaller].err = NoError

\* ---------------------------------------------------------------------- C39

\* C39: a step of a single-aggregate command (CreateAccount, Deposit,
\* Withdraw, ConvertCurrency) on an aggregate leaves the stream and the
\* snapshot of every other aggregate as they were, whether the command goes
\* on, succeeds or fails; and the append of such a command fails with
\* ErrOptimisticLock only when events were appended to its own aggregate
\* since it loaded it, whatever happened to the other aggregates.
C39_OtherAggregatesUntouched ==
    [][\A p \in DOMAIN callers :
        ( /\ callers'[p] # callers[p]
          /\ callers'[p].cmd.type \in SingleAggregate )
        => /\ \A b \in Ids \ {callers'[p].cmd.AccountID} :
                 /\ streams'[b] = streams[b]
                 /\ snapshots'[b] = snapshots[b]
           /\ ( /\ callers[p].pc = "save"
                /\ callers'[p].err = ErrOptimisticLock )
              => Len(streams[callers[p].cmd.AccountID]) > callers[p].initialVersion]_vars

\* the two commands on a1 have run into each other, one of them has failed
\* with ErrOptimisticLock, and the command on a2 has succeeded and appended
\* its event
C39_Witness ==
    /\ \A p \in DOMAIN callers : callers[p].pc = "done"
    /\ \E p \in DOMAIN callers : \E q \in DOMAIN callers :
          /\ callers[p].cmd.AccountID = "a1" /\ callers[p].err = ErrOptimisticLock
          /\ callers[q].cmd.AccountID = "a1" /\ callers[q].err = NoError
    /\ \E p \in DOMAIN callers :
          /\ callers[p].cmd.type \in SingleAggregate
          /\ callers[p].cmd.AccountID = "a2"
          /\ callers[p].err = NoError
    /\ Len(streams["a2"]) = 2
    /\ Len(streams["a1"]) = SnapshotFrequency

\* ---------------------------------------------------------------------- C40

\* C40: under fair scheduling every service command that a caller has
\* started returns, with success or with an error, whatever the other
\* callers do, the opposite transfers between two accounts included: the
\* lock of a store is held within one store call only, so no command waits
\* for a lock forever.
C40_EveryCommandReturns ==
    \A p \in Callers : InFlight(callers[p]) ~> callers[p].pc = "done"

\* C40, the locks: a caller holds a lock only inside a store call, and a
\* lock held for writing is held by one caller and by no reader.
C40_LocksWithinStoreCalls ==
    \A p \in Callers :
        Holds(callers[p]) =>
           /\ StoreOf(callers[p].pc) # "none"
           /\ \A q \in Callers \ {p} :
                 ( /\ Holds(callers[q])
                   /\ StoreOf(callers[q].pc) = StoreOf(callers[p].pc) )
                 => (~Writes(callers[p].pc) /\ ~Writes(callers[q].pc))

\* two transfers in opposite directions between the two accounts have both
\* returned
C40_Witness ==
    \E p \in Callers : \E q \in Callers :
        /\ callers[p].pc = "done" /\ callers[p].cmd.type = "TransferMoney"
        /\ callers[q].pc = "done" /\ callers[q].cmd.type = "TransferMoney"
        /\ callers[p].cmd.SourceAccountID = "a1"
        /\ callers[p].cmd.TargetAccountID = "a2"
        /\ callers[q].cmd.SourceAccountID = "a2"
        /\ callers[q].cmd.TargetAccountID = "a1"

====
